---- MODULE Spec2Model ----
(***************************************************************************)
(* State-machine model of the career-guidance web client:                  *)
(*   - the pure form validators (lib/validation),                           *)
(*   - the auth store and the shared HTTP client's response interceptor,    *)
(*   - the enhanced API wrapper with its mock-fallback flag,                *)
(*   - the useUniversitySearch hook (debounce timer + abort controller),    *)
(*   - the quiz page (countdown, answers, delayed auto-advance, submit).    *)
(* Strings are sequences of one-character strings, so that length, regex    *)
(* tests, endsWith, includes and toLowerCase are computed as the code does. *)
(***************************************************************************)
EXTENDS Integers, Sequences, FiniteSets, TLC

VARIABLES
  validation,        \* last validator call: [fn, args, result]
  token,             \* authStore.token
  user,              \* authStore.user
  lsToken,           \* localStorage['gg_token'] (Absent when the key is missing)
  lsUser,            \* localStorage['gg_user']
  location,          \* window.location.href
  inflight,          \* number of requests sent through `api` and not yet answered
  lastResponse,      \* status of the last response seen by the interceptor
  useMockData,       \* EnhancedDomainApi.useMockData
  flagTouched,       \* TRUE once enableMockData has been called
  calls,             \* calls made on the enhanced API wrapper
  query,             \* useUniversitySearch: the query prop of the current render
  universities,      \* useUniversitySearch: state `universities`
  loading,           \* useUniversitySearch: state `loading`
  error,             \* useUniversitySearch: state `error`
  abortRef,          \* abortControllerRef.current: 0 for null, else a controller id
  aborted,           \* aborted[c]: signal.aborted of controller c
  debounce,          \* pending debounce timers: [epoch, query]
  hasCleanup,        \* the current effect run returned a cleanup function
  apiTimers,         \* pending 3 s timers, named by the controller of their lookup
  lookups,           \* lookups awaiting fetch() or response.json()
  apiDisabled,       \* module-level `apiDisabled`
  epoch,             \* number of runs of the effect so far
  started,           \* the lookup started by the last step, if any
  done,              \* the lookup completed by the last step, if any
  listFor,           \* the query whose effect run or lookup made the last setUniversities call
  settings,          \* Quiz: the (domain, mode, difficulty) selection
  questions,         \* Quiz: state `questions`
  currentIndex,      \* Quiz: state `currentIndex` (0-based)
  selectedOption,    \* Quiz: state `selectedOption`
  isAnswerSubmitted, \* Quiz: state `isAnswerSubmitted`
  responses,         \* Quiz: state `responses`
  correctCount,      \* Quiz: state `correctCount`
  isLoading,         \* Quiz: state `isLoading`
  quizError,         \* Quiz: state `error`
  summary,           \* Quiz: state `summary`
  isSubmittingResults, \* Quiz: state `isSubmittingResults`
  quizMeta,          \* Quiz: state `quizMeta`
  questionTimeLeft,  \* Quiz: state `questionTimeLeft`
  totalTimeSpent,    \* Quiz: state `totalTimeSpent`
  countdownRef,      \* Quiz: countdownRef.current holds a running interval
  timeouts,          \* Quiz: pending 1200 ms callbacks: the values they closed over, ticks seen
  loads,             \* Quiz: getQuiz requests in flight
  loadCount,         \* Quiz: number of loadQuiz calls so far
  submits,           \* Quiz: submitQuizResult requests in flight
  loadedFor,         \* Quiz: the selection whose getQuiz response set `questions`
  xp,                \* gamification store: xp
  badges,            \* gamification store: badges
  quizEvent,         \* Quiz: what the last step did
  darkMode,          \* useAppStore: darkMode
  docDark,           \* document.documentElement carries the class 'dark'
  beforeReload,      \* the stores' state just before the last step, when it was a reload
  completed,         \* LearningPage: state `completed` (card key -> flag)
  progressReqs,      \* LearningPage: trackProgress requests in flight: [key, next]
  learnEvent,        \* LearningPage: what the last step did
  queries,           \* useQuery observers: status, failureCount, requests sent
  queryEvent,        \* what the last step did to which query
  sitePending,       \* call sites with a request in flight
  siteEvent,         \* how the last settled request was handled at its call site
  pendingMutations,  \* useMutation requests in flight (Projects, CodingPage)
  mutationCount,     \* number of mutate() calls so far
  lastXpAwarded,     \* Projects: state `lastXpAwarded`
  xpTimers,          \* Projects: pending 3 s timers that clear lastXpAwarded
  githubUrl,         \* Projects: state `githubUrl`
  projEvent,         \* what the last step did to which mutation
  hasUploaded,       \* ResumeBuilder: state `hasUploaded`
  resumeLoading,     \* ResumeBuilder: state `loading`
  analyzing,         \* ResumeBuilder: state `analyzing`
  showAnalysis,      \* ResumeBuilder: state `showAnalysis`
  uploadReqs,        \* ResumeBuilder: uploadResume requests in flight, with the render they closed over
  uploadCount,       \* ResumeBuilder: number of handleUpload calls so far
  analysisTimers,    \* ResumeBuilder: pending 1000 ms callbacks, with the render they closed over
  analyzeReqs,       \* ResumeBuilder: analyzeResume requests in flight
  lastUpload,        \* ResumeBuilder: outcome of the last settled upload on the page
  resumeEvent,       \* ResumeBuilder: what the last step did
  loginLoading,      \* Login: state `loading`
  loginReq,          \* Login: the request handleLogin awaits, if any
  loginEvent         \* Login: how the last step of handleLogin ended

valVars  == <<validation>>
authVars == <<token, user, lsToken, lsUser, location, inflight, lastResponse>>
apiVars  == <<useMockData, flagTouched, calls>>
uniVars  == <<query, universities, loading, error, abortRef, aborted, debounce, hasCleanup,
              apiTimers, lookups, apiDisabled, epoch, started, done, listFor>>
quizVars == <<settings, questions, currentIndex, selectedOption, isAnswerSubmitted, responses,
               correctCount, isLoading, quizError, summary, isSubmittingResults, quizMeta,
               questionTimeLeft, totalTimeSpent, countdownRef, timeouts, loads, loadCount,
               submits, loadedFor, xp, badges, quizEvent>>
storeVars == <<darkMode, docDark, beforeReload>>
learnVars == <<completed, progressReqs, learnEvent>>
queryVars == <<queries, queryEvent>>
siteVars == <<sitePending, siteEvent>>
projVars == <<pendingMutations, mutationCount, lastXpAwarded, xpTimers, githubUrl, projEvent>>
pageVars == <<storeVars, learnVars, queryVars, siteVars, projVars>>
resumeVars == <<hasUploaded, resumeLoading, analyzing, showAnalysis, uploadReqs, uploadCount,
                analysisTimers, analyzeReqs, lastUpload, resumeEvent>>
loginVars == <<loginLoading, loginReq, loginEvent>>
formVars == <<resumeVars, loginVars>>
vars     == <<valVars, authVars, apiVars, uniVars, quizVars, pageVars, formVars>>

Null      == "null"
Undefined == "undefined"
Absent    == "absent"

\* ------------------------------------------------------------------------
\* Characters and strings
\* ------------------------------------------------------------------------
LowerLetters ==
  {"a","b","c","d","e","f","g","h","i","j","k","l","m",
   "n","o","p","q","r","s","t","u","v","w","x","y","z"}

UpperLetters ==
  {"A","B","C","D","E","F","G","H","I","J","K","L","M",
   "N","O","P","Q","R","S","T","U","V","W","X","Y","Z"}

Digits == {"0","1","2","3","4","5","6","7","8","9"}

Letters == LowerLetters \cup UpperLetters

\* strings of length 0..n over the alphabet A
RECURSIVE StringsUpTo(_, _)
StringsUpTo(A, n) ==
  IF n = 0 THEN {<<>>}
  ELSE LET shorter == StringsUpTo(A, n - 1)
       IN  shorter \cup {Append(s, c) : s \in {t \in shorter : Len(t) = n - 1}, c \in A}

\* String.prototype.endsWith
EndsWith(s, suffix) ==
  /\ Len(s) >= Len(suffix)
  /\ \A k \in 1..Len(suffix) : s[Len(s) - Len(suffix) + k] = suffix[k]

\* ------------------------------------------------------------------------
\* lib/validation: validateEmail
\* ------------------------------------------------------------------------
EmailLocalChars  == Letters \cup Digits \cup {".", "_", "%", "+", "-"}
EmailDomainChars == Letters \cup Digits \cup {".", "-"}

\* /^[a-zA-Z0-9._%+-]+@[a-zA-Z0-9.-]+\.[a-z]{2,}$/i .test(s)
EmailRegexTest(s) ==
  \E i \in 1..Len(s) : \E j \in 1..Len(s) :
    /\ s[i] = "@"
    /\ s[j] = "."
    /\ i > 1
    /\ \A k \in 1..(i - 1) : s[k] \in EmailLocalChars
    /\ j > i + 1
    /\ \A k \in (i + 1)..(j - 1) : s[k] \in EmailDomainChars
    /\ Len(s) - j >= 2
    /\ \A k \in (j + 1)..Len(s) : s[k] \in Letters

validateEmail_noCom(email) ==
  IF email = <<>> THEN [valid |-> FALSE, message |-> "Email is required"]
  ELSE IF ~EmailRegexTest(email) THEN [valid |-> FALSE, message |-> "Invalid email format"]
  ELSE IF ~EndsWith(email, <<".","i","n">>)
       THEN [valid |-> FALSE, message |-> "Email must end with .com or .in"]
  ELSE [valid |-> TRUE, message |-> Undefined]

validateEmail(email) ==
  IF email = <<>> THEN [valid |-> FALSE, message |-> "Email is required"]
  ELSE IF ~EmailRegexTest(email) THEN [valid |-> FALSE, message |-> "Invalid email format"]
  ELSE IF ~EndsWith(email, <<".","c","o","m">>) /\ ~EndsWith(email, <<".","i","n">>)
       THEN [valid |-> FALSE, message |-> "Email must end with .com or .in"]
  ELSE [valid |-> TRUE, message |-> Undefined]

\* ------------------------------------------------------------------------
\* lib/validation: validatePassword
\* ------------------------------------------------------------------------
PasswordSpecials == {"@", "$", "!", "%", "*", "?", "&"}
PasswordChars    == Letters \cup Digits \cup PasswordSpecials

\* /^(?=.*[a-z])(?=.*[A-Z])(?=.*\d)(?=.*[@$!%*?&])[A-Za-z\d@$!%*?&]{8,}$/ .test(s)
PasswordRegexTest(s) ==
  /\ \E k \in 1..Len(s) : s[k] \in LowerLetters
  /\ \E k \in 1..Len(s) : s[k] \in UpperLetters
  /\ \E k \in 1..Len(s) : s[k] \in Digits
  /\ \E k \in 1..Len(s) : s[k] \in PasswordSpecials
  /\ \A k \in 1..Len(s) : s[k] \in PasswordChars
  /\ Len(s) >= 8

validatePassword_regexFirst(password) ==
  IF password = <<>> THEN [valid |-> FALSE, message |-> "Password is required"]
  ELSE IF ~PasswordRegexTest(password)
       THEN [valid |-> FALSE,
             message |-> "Password must contain: 1 uppercase, 1 lowercase, 1 number, 1 special character"]
  ELSE IF Len(password) < 8
       THEN [valid |-> FALSE, message |-> "Password must be at least 8 characters"]
  ELSE [valid |-> TRUE, message |-> Undefined]

validatePassword(password) ==
  IF password = <<>> THEN [valid |-> FALSE, message |-> "Password is required"]
  ELSE IF Len(password) < 8
       THEN [valid |-> FALSE, message |-> "Password must be at least 8 characters"]
  ELSE IF ~PasswordRegexTest(password)
       THEN [valid |-> FALSE,
             message |-> "Password must contain: 1 uppercase, 1 lowercase, 1 number, 1 special character"]
  ELSE [valid |-> TRUE, message |-> Undefined]

\* ------------------------------------------------------------------------
\* lib/validation: validateConfirmPassword
\* ------------------------------------------------------------------------
validateConfirmPassword_inverted(password, confirmPassword) ==
  IF confirmPassword = <<>>
  THEN [valid |-> FALSE, message |-> "Please confirm your password"]
  ELSE IF password = confirmPassword
  THEN [valid |-> FALSE, message |-> "Passwords do not match"]
  ELSE [valid |-> TRUE, message |-> Undefined]

validateConfirmPassword(password, confirmPassword) ==
  IF confirmPassword = <<>>
  THEN [valid |-> FALSE, message |-> "Please confirm your password"]
  ELSE IF password # confirmPassword
  THEN [valid |-> FALSE, message |-> "Passwords do not match"]
  ELSE [valid |-> TRUE, message |-> Undefined]

\* ------------------------------------------------------------------------
\* The validators applied to bounded inputs
\* ------------------------------------------------------------------------
MaxEmailLen    == 6
MaxPasswordLen == 8
MaxConfirmLen  == 2

EmailAlphabet    == {"a", "@", ".", "i", "n"}
PasswordAlphabet == {"a", "A", "1", "@"}
ConfirmAlphabet  == {"a", "A", "1"}

EmailSamples ==
  { <<"a","@","b",".","c","o","m">>,
    <<"A","@","B",".","C","O","M">>,
    <<"a","@","b",".","o","r","g">>,
    <<"a","@","b",".","c","o",".","i","n">>,
    <<"a"," ","@","b",".","c","o","m">>,
    <<"a","b",".","c","o","m">> }

PasswordSamples ==
  { <<"s","h","o","r","t">>,
    <<"P","a","s","s","w","0","r","d","!">>,
    <<"p","a","s","s"," ","w","o","r","d">>,
    <<"A","b","c","d","e","f","1","#">>,
    <<"A","b","1","#">> }

EmailInputs    == StringsUpTo(EmailAlphabet, MaxEmailLen) \cup EmailSamples
PasswordInputs == StringsUpTo(PasswordAlphabet, MaxPasswordLen) \cup PasswordSamples
ConfirmInputs  == StringsUpTo(ConfirmAlphabet, MaxConfirmLen)

NoValidation == [fn |-> "none", args |-> <<>>, result |-> [valid |-> FALSE, message |-> Undefined]]

\* the form is edited again: the previous result is dropped
ClearValidation ==
  /\ validation # NoValidation
  /\ validation' = NoValidation
  /\ UNCHANGED <<formVars, authVars, apiVars, uniVars, quizVars, pageVars>>

CallValidateEmail ==
  /\ validation = NoValidation
  /\ \E email \in EmailInputs :
    validation' = [fn |-> "validateEmail", args |-> <<email>>, result |-> validateEmail(email)]
  /\ UNCHANGED <<formVars, authVars, apiVars, uniVars, quizVars, pageVars>>

CallValidatePassword ==
  /\ validation = NoValidation
  /\ \E password \in PasswordInputs :
    validation' = [fn |-> "validatePassword", args |-> <<password>>,
                   result |-> validatePassword(password)]
  /\ UNCHANGED <<formVars, authVars, apiVars, uniVars, quizVars, pageVars>>

CallValidateConfirmPassword ==
  /\ validation = NoValidation
  /\ \E password \in ConfirmInputs : \E confirmPassword \in ConfirmInputs :
    validation' = [fn |-> "validateConfirmPassword", args |-> <<password, confirmPassword>>,
                   result |-> validateConfirmPassword(password, confirmPassword)]
  /\ UNCHANGED <<formVars, authVars, apiVars, uniVars, quizVars, pageVars>>

\* ------------------------------------------------------------------------
\* store/auth and the response interceptor of the shared HTTP client
\* ------------------------------------------------------------------------
Tokens   == {"", "t1", "t2"}
Users    == {"u1", "u2"}
Paths    == {"/", "/login", "/dashboard"}
Statuses == {200, 401, 403, 500}
NetworkError == 0                      \* an error without err.response
NoResponse   == -1                     \* nothing has come back yet

MaxInflight == 2

\* JSON.stringify / JSON.parse of a user object
JSONstringify(u) ==
  CASE u = "u1" -> "{\"id\":1}"
    [] u = "u2" -> "{\"id\":2}"
    [] OTHER    -> "null"
JSONparse(s) ==
  CASE s = "{\"id\":1}" -> "u1"
    [] s = "{\"id\":2}" -> "u2"
    [] OTHER             -> Null

\* localStorage.getItem: null for a missing key
GetItem(stored) == IF stored = Absent THEN Null ELSE stored

\* JS truthiness of string | null and object | null
Truthy(v) == v # Null /\ v # ""

AuthState == [token |-> token, user |-> user, lsToken |-> lsToken, lsUser |-> lsUser]

setToken(s, t) ==
  [s EXCEPT !.lsToken = IF Truthy(t) THEN t ELSE Absent, !.token = t]

setUser(s, u) ==
  [s EXCEPT !.lsUser = IF Truthy(u) THEN JSONstringify(u) ELSE Absent, !.user = u]

logout_keepsUser(s) ==
  [s EXCEPT !.lsToken = Absent, !.token = Null]

logout(s) ==
  [s EXCEPT !.lsToken = Absent, !.lsUser = Absent, !.token = Null, !.user = Null]

SetAuth(s) ==
  /\ token' = s.token
  /\ user' = s.user
  /\ lsToken' = s.lsToken
  /\ lsUser' = s.lsUser

\* what localStorage may hold when the page is opened
InitialStorage ==
  /\ lsToken \in {Absent, "t1"}
  /\ lsUser \in {Absent, JSONstringify("u1")}

\* create(): the store is initialised from localStorage
AuthCreate ==
  /\ token = GetItem(lsToken)
  /\ user = JSONparse(IF Truthy(GetItem(lsUser)) THEN GetItem(lsUser) ELSE "null")
  /\ location = "/"
  /\ inflight = 0
  /\ lastResponse = NoResponse

AuthInit == InitialStorage /\ AuthCreate

\* the page opened with nothing in localStorage
AuthFresh == lsToken = Absent /\ lsUser = Absent /\ AuthCreate

CallSetToken ==
  /\ \E t \in Tokens \cup {Null} : SetAuth(setToken(AuthState, t))
  /\ UNCHANGED <<location, inflight, lastResponse>>
  /\ UNCHANGED <<formVars, valVars, apiVars, uniVars, quizVars, pageVars>>

CallSetUser ==
  /\ \E u \in Users \cup {Null} : SetAuth(setUser(AuthState, u))
  /\ UNCHANGED <<location, inflight, lastResponse>>
  /\ UNCHANGED <<formVars, valVars, apiVars, uniVars, quizVars, pageVars>>

CallLogout ==
  /\ SetAuth(logout(AuthState))
  /\ UNCHANGED <<location, inflight, lastResponse>>
  /\ UNCHANGED <<formVars, valVars, apiVars, uniVars, quizVars, pageVars>>

\* client-side navigation by the router
Navigate ==
  /\ \E p \in Paths : p # location /\ location' = p
  /\ UNCHANGED <<token, user, lsToken, lsUser, inflight, lastResponse>>
  /\ UNCHANGED <<formVars, valVars, apiVars, uniVars, quizVars, pageVars>>

\* a request goes out through `api`
SendRequest ==
  /\ inflight < MaxInflight
  /\ inflight' = inflight + 1
  /\ UNCHANGED <<token, user, lsToken, lsUser, location, lastResponse>>
  /\ UNCHANGED <<formVars, valVars, apiVars, uniVars, quizVars, pageVars>>

\* api.interceptors.response, success handler: (res) => res
ResponseFulfilled ==
  /\ inflight > 0
  /\ inflight' = inflight - 1
  /\ lastResponse' = 200
  /\ UNCHANGED <<token, user, lsToken, lsUser, location>>
  /\ UNCHANGED <<formVars, valVars, apiVars, uniVars, quizVars, pageVars>>

\* the status the interceptor's error handler reacts to
IsUnauthorized_403(status) == status = 403

IsUnauthorized(status) == status = 401

\* api.interceptors.response, error handler
ResponseRejected ==
  /\ inflight > 0
  /\ inflight' = inflight - 1
  /\ \E status \in (Statuses \ {200}) \cup {NetworkError} :
       /\ lastResponse' = status
       /\ IF IsUnauthorized(status)
          THEN /\ SetAuth(logout(AuthState))
               /\ location' = "/login"
          ELSE UNCHANGED <<token, user, lsToken, lsUser, location>>
  /\ UNCHANGED <<formVars, valVars, apiVars, uniVars, quizVars, pageVars>>

\* ------------------------------------------------------------------------
\* lib/enhancedApi: EnhancedDomainApi
\* ------------------------------------------------------------------------
Methods ==
  {"getUserProfile", "getPersonalizedRecommendations", "getTrendingSkills", "getVideos",
   "getCourses", "getCertificationRoadmap", "getBeginnerChecklist", "getUserStreak",
   "getQuizQuestions", "getCodingChallenge", "getUserPlaylist", "getRecentActivity",
   "trackProgress", "addToPlaylist", "removeFromPlaylist", "updatePlaylistProgress",
   "submitCode", "exportRoadmap"}

Errors   == {"e1", "e2"}
MaxCalls == 1

\* the value a method returns from its catch block when the flag is on
MockValue(m)   == <<"mock", m>>
\* the value a rejected call carries
ErrorValue(e)  == <<"error", e>>
NoValue        == <<"none", "none">>
\* the value the underlying domainAwareApi call resolves with
ServerValue(m) == <<"server", m>>

\* try { return await domainAwareApi.m(...) } catch (error) { if (!this.useMockData) throw error; return mock }
\* `outcome` is "ok" or the error the underlying call rejected with
EnhancedSettle_flagAtCall(c, flag, outcome) ==
  IF outcome = "ok"
  THEN [c EXCEPT !.status = "resolved", !.value = ServerValue(c.method),
                 !.underlying = outcome, !.flagAtSettle = flag]
  ELSE IF ~c.flagAtCall
  THEN [c EXCEPT !.status = "rejected", !.value = ErrorValue(outcome),
                 !.underlying = outcome, !.flagAtSettle = flag]
  ELSE [c EXCEPT !.status = "resolved", !.value = MockValue(c.method),
                 !.underlying = outcome, !.flagAtSettle = flag]

EnhancedSettle(c, flag, outcome) ==
  IF outcome = "ok"
  THEN [c EXCEPT !.status = "resolved", !.value = ServerValue(c.method),
                 !.underlying = outcome, !.flagAtSettle = flag]
  ELSE IF ~flag
  THEN [c EXCEPT !.status = "rejected", !.value = ErrorValue(outcome),
                 !.underlying = outcome, !.flagAtSettle = flag]
  ELSE [c EXCEPT !.status = "resolved", !.value = MockValue(c.method),
                 !.underlying = outcome, !.flagAtSettle = flag]

ApiInit ==
  /\ useMockData = FALSE
  /\ flagTouched = FALSE
  /\ calls = <<>>

\* enableMockData(value)
EnableMockData ==
  /\ \E value \in BOOLEAN : useMockData' = value
  /\ flagTouched' = TRUE
  /\ UNCHANGED calls
  /\ UNCHANGED <<formVars, valVars, authVars, uniVars, quizVars, pageVars>>

\* a method of the wrapper is called: the underlying request is issued
CallMethod ==
  /\ Len(calls) < MaxCalls
  /\ \E m \in Methods :
       calls' = Append(calls, [method |-> m, status |-> "pending", value |-> NoValue,
                               underlying |-> Null, flagAtCall |-> useMockData,
                               flagAtSettle |-> FALSE])
  /\ UNCHANGED <<useMockData, flagTouched>>
  /\ UNCHANGED <<formVars, valVars, authVars, uniVars, quizVars, pageVars>>

\* the underlying request resolves
UnderlyingResolves ==
  /\ \E i \in 1..Len(calls) :
       /\ calls[i].status = "pending"
       /\ calls' = [calls EXCEPT ![i] = EnhancedSettle(calls[i], useMockData, "ok")]
  /\ UNCHANGED <<useMockData, flagTouched>>
  /\ UNCHANGED <<formVars, valVars, authVars, uniVars, quizVars, pageVars>>

\* the underlying request fails
UnderlyingRejects ==
  /\ \E i \in 1..Len(calls) : \E e \in Errors :
       /\ calls[i].status = "pending"
       /\ calls' = [calls EXCEPT ![i] = EnhancedSettle(calls[i], useMockData, e)]
  /\ UNCHANGED <<useMockData, flagTouched>>
  /\ UNCHANGED <<formVars, valVars, authVars, uniVars, quizVars, pageVars>>


\* ------------------------------------------------------------------------
\* hooks/useUniversitySearch
\* ------------------------------------------------------------------------
FALLBACK_UNIVERSITIES ==
  <<
    [name |-> <<"A","m","r","i","t","a"," ","V","i","s","h","w","a"," ","V","i","d","y","a","p","e","e","t","h","a","m">>,
     country |-> "India"],
    [name |-> <<"V","I","T"," ","U","n","i","v","e","r","s","i","t","y"," ","(","V","e","l","l","o","r","e"," ","I","n","s","t","i","t","u","t","e"," ","o","f"," ","T","e","c","h","n","o","l","o","g","y",")">>,
     country |-> "India"],
    [name |-> <<"I","n","d","i","a","n"," ","I","n","s","t","i","t","u","t","e"," ","o","f"," ","T","e","c","h","n","o","l","o","g","y"," ","D","e","l","h","i">>,
     country |-> "India"],
    [name |-> <<"I","n","d","i","a","n"," ","I","n","s","t","i","t","u","t","e"," ","o","f"," ","T","e","c","h","n","o","l","o","g","y"," ","B","o","m","b","a","y">>,
     country |-> "India"],
    [name |-> <<"I","n","d","i","a","n"," ","I","n","s","t","i","t","u","t","e"," ","o","f"," ","T","e","c","h","n","o","l","o","g","y"," ","M","a","d","r","a","s">>,
     country |-> "India"],
    [name |-> <<"I","n","d","i","a","n"," ","I","n","s","t","i","t","u","t","e"," ","o","f"," ","T","e","c","h","n","o","l","o","g","y"," ","K","a","n","p","u","r">>,
     country |-> "India"],
    [name |-> <<"I","n","d","i","a","n"," ","I","n","s","t","i","t","u","t","e"," ","o","f"," ","T","e","c","h","n","o","l","o","g","y"," ","K","h","a","r","a","g","p","u","r">>,
     country |-> "India"],
    [name |-> <<"D","e","l","h","i"," ","U","n","i","v","e","r","s","i","t","y">>,
     country |-> "India"],
    [name |-> <<"J","a","w","a","h","a","r","l","a","l"," ","N","e","h","r","u"," ","U","n","i","v","e","r","s","i","t","y">>,
     country |-> "India"],
    [name |-> <<"B","i","r","l","a"," ","I","n","s","t","i","t","u","t","e"," ","o","f"," ","T","e","c","h","n","o","l","o","g","y">>,
     country |-> "India"],
    [name |-> <<"M","a","n","i","p","a","l"," ","I","n","s","t","i","t","u","t","e"," ","o","f"," ","T","e","c","h","n","o","l","o","g","y">>,
     country |-> "India"],
    [name |-> <<"S","R","M"," ","I","n","s","t","i","t","u","t","e"," ","o","f"," ","S","c","i","e","n","c","e"," ","a","n","d"," ","T","e","c","h","n","o","l","o","g","y">>,
     country |-> "India"],
    [name |-> <<"C","h","a","n","d","i","g","a","r","h"," ","U","n","i","v","e","r","s","i","t","y">>,
     country |-> "India"],
    [name |-> <<"P","E","S"," ","U","n","i","v","e","r","s","i","t","y">>,
     country |-> "India"],
    [name |-> <<"N","I","T"," ","T","r","i","c","h","y">>,
     country |-> "India"],
    [name |-> <<"N","I","T"," ","W","a","r","a","n","g","a","l">>,
     country |-> "India"],
    [name |-> <<"M","a","s","s","a","c","h","u","s","e","t","t","s"," ","I","n","s","t","i","t","u","t","e"," ","o","f"," ","T","e","c","h","n","o","l","o","g","y">>,
     country |-> "United States"],
    [name |-> <<"S","t","a","n","f","o","r","d"," ","U","n","i","v","e","r","s","i","t","y">>,
     country |-> "United States"],
    [name |-> <<"H","a","r","v","a","r","d"," ","U","n","i","v","e","r","s","i","t","y">>,
     country |-> "United States"],
    [name |-> <<"U","n","i","v","e","r","s","i","t","y"," ","o","f"," ","C","a","l","i","f","o","r","n","i","a",","," ","B","e","r","k","e","l","e","y">>,
     country |-> "United States"],
    [name |-> <<"C","a","r","n","e","g","i","e"," ","M","e","l","l","o","n"," ","U","n","i","v","e","r","s","i","t","y">>,
     country |-> "United States"],
    [name |-> <<"U","n","i","v","e","r","s","i","t","y"," ","o","f"," ","C","a","m","b","r","i","d","g","e">>,
     country |-> "United Kingdom"],
    [name |-> <<"O","x","f","o","r","d"," ","U","n","i","v","e","r","s","i","t","y">>,
     country |-> "United Kingdom"],
    [name |-> <<"E","T","H"," ","Z","u","r","i","c","h">>,
     country |-> "Switzerland"],
    [name |-> <<"U","n","i","v","e","r","s","i","t","y"," ","o","f"," ","T","o","r","o","n","t","o">>,
     country |-> "Canada"]
  >>

UpperSeq == <<"A","B","C","D","E","F","G","H","I","J","K","L","M",
              "N","O","P","Q","R","S","T","U","V","W","X","Y","Z">>
LowerSeq == <<"a","b","c","d","e","f","g","h","i","j","k","l","m",
              "n","o","p","q","r","s","t","u","v","w","x","y","z">>

\* String.prototype.toLowerCase
ToLowerChar(c) ==
  IF c \in UpperLetters
  THEN LowerSeq[CHOOSE i \in 1..26 : UpperSeq[i] = c]
  ELSE c

ToLowerCase(s) == [k \in 1..Len(s) |-> ToLowerChar(s[k])]

\* String.prototype.includes
Includes(s, sub) ==
  \E start \in 0..(Len(s) - Len(sub)) :
    \A k \in 1..Len(sub) : s[start + k] = sub[k]

\* the fallback names in lower case, computed once
FallbackLowerNames ==
  [i \in 1..Len(FALLBACK_UNIVERSITIES) |-> ToLowerCase(FALLBACK_UNIVERSITIES[i].name)]

\* Array.prototype.slice(0, n)
Slice(arr, n) == SubSeq(arr, 1, IF Len(arr) < n THEN Len(arr) ELSE n)

\* FALLBACK_UNIVERSITIES.filter(u => u.name.toLowerCase().includes(query.toLowerCase()))
RECURSIVE FilterFallback(_, _)
FilterFallback(q, i) ==
  IF i > Len(FALLBACK_UNIVERSITIES) THEN <<>>
  ELSE IF Includes(FallbackLowerNames[i], ToLowerCase(q))
       THEN <<FALLBACK_UNIVERSITIES[i]>> \o FilterFallback(q, i + 1)
       ELSE FilterFallback(q, i + 1)

FallbackFor_filterOnly(q) == FilterFallback(q, 1)

\* filtered.length > 0 ? filtered : FALLBACK_UNIVERSITIES.slice(0, 10)
FallbackFor(q) ==
  LET filtered == FilterFallback(q, 1)
  IN  IF Len(filtered) > 0 THEN filtered ELSE Slice(FALLBACK_UNIVERSITIES, 10)

\* what the universities API may send back
ApiNames == <<"a","b","c","d","e","f","g","h","i","j","k","l">>
ApiEntry(i) == [name |-> <<"#", ApiNames[i]>>, country |-> "Api"]
ApiArray(n) == [i \in 1..n |-> ApiEntry(i)]
ApiData ==
  { [isArray |-> FALSE, items |-> <<>>],
    [isArray |-> TRUE,  items |-> <<>>],
    [isArray |-> TRUE,  items |-> ApiArray(1)],
    [isArray |-> TRUE,  items |-> ApiArray(12)] }

\* the queries the user types
Queries ==
  { <<>>, <<"i">>, <<"i","t">>, <<"n","i","t">>, <<"N","I","T">>, <<"z","z","q">> }

MaxEffects == 4

NoStart == [query |-> <<>>, epoch |-> 0, api |-> FALSE]
NoDone  == [query |-> <<>>, via |-> "none", cause |-> "none"]

UniState ==
  [query |-> query, universities |-> universities, loading |-> loading, error |-> error,
   abortRef |-> abortRef, aborted |-> aborted, debounce |-> debounce,
   hasCleanup |-> hasCleanup, apiTimers |-> apiTimers, lookups |-> lookups,
   apiDisabled |-> apiDisabled, epoch |-> epoch, started |-> started, done |-> done,
   listFor |-> listFor]

SetUni(u) ==
  /\ query' = u.query
  /\ universities' = u.universities
  /\ loading' = u.loading
  /\ error' = u.error
  /\ abortRef' = u.abortRef
  /\ aborted' = u.aborted
  /\ debounce' = u.debounce
  /\ hasCleanup' = u.hasCleanup
  /\ apiTimers' = u.apiTimers
  /\ lookups' = u.lookups
  /\ apiDisabled' = u.apiDisabled
  /\ epoch' = u.epoch
  /\ started' = u.started
  /\ done' = u.done
  /\ listFor' = u.listFor

\* useState initial values, useRef(null), apiDisabled = false; the first run
\* of the effect sees the empty query
UniInit ==
  /\ query = <<>>
  /\ universities = <<>>
  /\ loading = FALSE
  /\ error = Null
  /\ abortRef = 0
  /\ aborted = <<>>
  /\ debounce = {}
  /\ hasCleanup = FALSE
  /\ apiTimers = {}
  /\ lookups = {}
  /\ apiDisabled = FALSE
  /\ epoch = 0
  /\ started = NoStart
  /\ done = NoDone
  /\ listFor = <<>>

\* the state at the start of a step: nothing started or completed yet
Fresh(u) == [u EXCEPT !.started = NoStart, !.done = NoDone]

\* abortControllerRef.current.abort(), guarded by `if (abortControllerRef.current)`
AbortCurrent(u) ==
  IF u.abortRef = 0 THEN u ELSE [u EXCEPT !.aborted[u.abortRef] = TRUE]

\* the end of the timer callback: fallback list, loading off
UseFallback(u, l, cause) ==
  [u EXCEPT !.universities = FallbackFor(l.query),
            !.listFor = l.query,
            !.loading = FALSE,
            !.lookups = @ \ {l},
            !.done = [query |-> l.query, via |-> "fallback", cause |-> cause]]

CatchFetchError_neverDisables(u, l, name, cause) ==
  UseFallback([u EXCEPT !.apiTimers = @ \ {l.ctrl}], l, cause)

\* catch (fetchError): clearTimeout, disable the API unless it is an AbortError,
\* then fall through to the fallback
CatchFetchError(u, l, name, cause) ==
  LET u1 == [u EXCEPT !.apiTimers = @ \ {l.ctrl},
                      !.apiDisabled = IF name # "AbortError" THEN TRUE ELSE @]
  IN  UseFallback(u1, l, cause)

\* the promise reactions run at the end of the task: a lookup whose signal
\* was aborted while it awaited fetch() or json() resumes in its catch block
RECURSIVE RunAborted(_, _)
RunAborted(u, cause) ==
  IF \E l \in u.lookups : u.aborted[l.ctrl]
  THEN LET l == CHOOSE x \in u.lookups : u.aborted[x.ctrl]
       IN  RunAborted(CatchFetchError(u, l, "AbortError", cause), cause)
  ELSE u

\* the cleanup returned by the previous run of the effect
Cleanup_keepsTimer(u) ==
  IF ~u.hasCleanup THEN u
  ELSE AbortCurrent(u)

Cleanup(u) ==
  IF ~u.hasCleanup THEN u
  ELSE AbortCurrent([u EXCEPT !.debounce = {t \in @ : t.epoch # u.epoch}])

\* the body of the effect for the query q
EffectBody(u, q) ==
  IF Len(q) < 2
  THEN [u EXCEPT !.query = q, !.epoch = @ + 1, !.universities = <<>>, !.listFor = q,
                 !.hasCleanup = FALSE]
  ELSE LET u1 == AbortCurrent(u)
       IN  [u1 EXCEPT !.query = q, !.epoch = @ + 1,
                      !.debounce = @ \cup {[epoch |-> u.epoch + 1, query |-> q]},
                      !.hasCleanup = TRUE]

\* the effect when neither the cleanup nor the body aborts the controller
ReRunEffect_noAbort(u, q) ==
  LET u1 == IF ~u.hasCleanup THEN u
            ELSE [u EXCEPT !.debounce = {t \in @ : t.epoch # u.epoch}]
  IN  IF Len(q) < 2
      THEN [u1 EXCEPT !.query = q, !.epoch = @ + 1, !.universities = <<>>, !.listFor = q,
                      !.hasCleanup = FALSE]
      ELSE [u1 EXCEPT !.query = q, !.epoch = @ + 1,
                      !.debounce = @ \cup {[epoch |-> u.epoch + 1, query |-> q]},
                      !.hasCleanup = TRUE]

\* a change of [query, debounceMs]: cleanup of the previous run, then the body
ReRunEffect(u, q) == EffectBody(Cleanup(u), q)

\* the user edits the field: the hook is rendered with another query
QueryChange ==
  /\ epoch < MaxEffects
  /\ \E q \in Queries :
       /\ q # query
       /\ SetUni(RunAborted(ReRunEffect(Fresh(UniState), q), "superseded"))
  /\ UNCHANGED <<formVars, valVars, authVars, apiVars, quizVars, pageVars>>

\* the debounce timer fires: the async callback runs up to its first await
DebounceFire ==
  /\ \E t \in debounce :
       LET u0 == [Fresh(UniState) EXCEPT !.debounce = @ \ {t}, !.loading = TRUE, !.error = Null]
           useFallback == u0.apiDisabled \/ Len(t.query) < 3
           ctrl == Len(u0.aborted) + 1
           l == [query |-> t.query, ctrl |-> ctrl, epoch |-> t.epoch, stage |-> "fetch"]
       IN  IF ~useFallback /\ ~u0.apiDisabled
           THEN SetUni([u0 EXCEPT !.aborted = Append(@, FALSE),
                                  !.abortRef = ctrl,
                                  !.apiTimers = @ \cup {ctrl},
                                  !.lookups = @ \cup {l},
                                  !.started = [query |-> t.query, epoch |-> t.epoch, api |-> TRUE]])
           ELSE SetUni(UseFallback(
                         [u0 EXCEPT !.started = [query |-> t.query, epoch |-> t.epoch, api |-> FALSE]],
                         [query |-> t.query, ctrl |-> 0, epoch |-> t.epoch, stage |-> "none"],
                         "skipped"))
  /\ UNCHANGED <<formVars, valVars, authVars, apiVars, quizVars, pageVars>>

\* fetch() resolves with a response: clearTimeout, then response.ok is tested
FetchResolves ==
  /\ \E l \in lookups : \E ok \in BOOLEAN :
       /\ l.stage = "fetch"
       /\ ~aborted[l.ctrl]
       /\ LET u0 == [Fresh(UniState) EXCEPT !.apiTimers = @ \ {l.ctrl}]
          IN  IF ok
              THEN SetUni([u0 EXCEPT !.lookups = (@ \ {l}) \cup {[l EXCEPT !.stage = "json"]}])
              ELSE SetUni(UseFallback(u0, l, "not_ok"))
  /\ UNCHANGED <<formVars, valVars, authVars, apiVars, quizVars, pageVars>>

\* fetch() rejects with a network error (a TypeError)
FetchRejects ==
  /\ \E l \in lookups :
       /\ l.stage = "fetch"
       /\ ~aborted[l.ctrl]
       /\ SetUni(CatchFetchError(Fresh(UniState), l, "TypeError", "failed"))
  /\ UNCHANGED <<formVars, valVars, authVars, apiVars, quizVars, pageVars>>

\* response.json() resolves
JsonResolves ==
  /\ \E l \in lookups : \E data \in ApiData :
       /\ l.stage = "json"
       /\ ~aborted[l.ctrl]
       /\ IF data.isArray /\ Len(data.items) > 0
          THEN SetUni([Fresh(UniState) EXCEPT
                         !.universities = Slice(data.items, 10),
                         !.listFor = l.query,
                         !.loading = FALSE,
                         !.lookups = @ \ {l},
                         !.done = [query |-> l.query, via |-> "api", cause |-> "ok"]])
          ELSE SetUni(UseFallback(Fresh(UniState), l, "no_entries"))
  /\ UNCHANGED <<formVars, valVars, authVars, apiVars, quizVars, pageVars>>

\* response.json() rejects: the body is not JSON (a SyntaxError)
JsonRejects ==
  /\ \E l \in lookups :
       /\ l.stage = "json"
       /\ ~aborted[l.ctrl]
       /\ SetUni(CatchFetchError(Fresh(UniState), l, "SyntaxError", "failed"))
  /\ UNCHANGED <<formVars, valVars, authVars, apiVars, quizVars, pageVars>>

\* the 3 s timer fires: abortControllerRef.current?.abort()
ApiTimeout ==
  /\ \E c \in apiTimers :
       SetUni(RunAborted(AbortCurrent([Fresh(UniState) EXCEPT !.apiTimers = @ \ {c}]), "timeout"))
  /\ UNCHANGED <<formVars, valVars, authVars, apiVars, quizVars, pageVars>>

\* the component using the hook leaves the screen: React runs the cleanup of
\* the last effect run
Unmount(u) == RunAborted(Cleanup(u), "unmounted")

\* a new instance of the hook: fresh useState and useRef values, while the
\* module-level apiDisabled is the one of the session
Mount(u) ==
  [u EXCEPT !.query = <<>>, !.universities = <<>>, !.listFor = <<>>, !.loading = FALSE,
            !.error = Null, !.abortRef = 0, !.hasCleanup = FALSE,
            !.started = NoStart, !.done = NoDone]

\* the user leaves the page and comes back to it
Remount ==
  /\ SetUni(Mount(Unmount(Fresh(UniState))))
  /\ UNCHANGED <<formVars, valVars, authVars, apiVars, quizVars, pageVars>>

\* the request of another mounted instance of the hook fails: its catch block
\* runs on that instance's state, and only the module-level flag is shared
SiblingRequestFails ==
  /\ LET l == [query |-> <<"n","i","t">>, ctrl |-> 0, epoch |-> 0, stage |-> "fetch"]
         sibling == [Fresh(UniState) EXCEPT !.lookups = {l}, !.apiTimers = {}]
         after == CatchFetchError(sibling, l, "TypeError", "failed")
     IN  SetUni([Fresh(UniState) EXCEPT !.apiDisabled = after.apiDisabled])
  /\ UNCHANGED <<formVars, valVars, authVars, apiVars, quizVars, pageVars>>

UniNext ==
  \/ QueryChange
  \/ DebounceFire
  \/ FetchResolves
  \/ FetchRejects
  \/ JsonResolves
  \/ JsonRejects
  \/ ApiTimeout

\* ------------------------------------------------------------------------
\* pages/Quiz and store/gamification
\* ------------------------------------------------------------------------
DEFAULT_TIME_LIMIT == 60

NoOption       == -2      \* selectedOption === null
TimedOutOption == -1

Options  == {0, 1}
Settings == {"concept", "rapid"}

NoMeta    == [set |-> FALSE, timePerQuestion |-> 0]
NoSummary == [set |-> FALSE, score |-> 0, awarded_xp |-> 0]

\* what GET /quiz may answer: the items and meta.time_per_question (-1 stands
\* for an absent field).  The payloads used here carry short time limits; a
\* question id may occur twice.
QuizPayloads ==
  { [items |-> <<>>, time_per_question |-> 1],
    [items |-> <<[id |-> "a", answer |-> 0]>>, time_per_question |-> 1],
    [items |-> <<[id |-> "a", answer |-> 0], [id |-> "b", answer |-> 1]>>, time_per_question |-> 2],
    [items |-> <<[id |-> "a", answer |-> 1], [id |-> "a", answer |-> 0]>>, time_per_question |-> 1] }

\* what POST /quiz/submit may answer
QuizResults ==
  { [awarded_xp |-> 0, badges |-> <<>>],
    [awarded_xp |-> 10, badges |-> <<"b1">>] }

MaxLoads == 2

NoEvent ==
  [kind |-> "none", qid |-> "none", open |-> FALSE, lenBefore |-> 0, last |-> FALSE,
   finish |-> FALSE, sent |-> FALSE, toast |-> "none"]

QuizState ==
  [settings |-> settings, questions |-> questions, currentIndex |-> currentIndex,
   selectedOption |-> selectedOption, isAnswerSubmitted |-> isAnswerSubmitted,
   responses |-> responses, correctCount |-> correctCount, isLoading |-> isLoading,
   quizError |-> quizError, summary |-> summary,
   isSubmittingResults |-> isSubmittingResults, quizMeta |-> quizMeta,
   questionTimeLeft |-> questionTimeLeft, totalTimeSpent |-> totalTimeSpent,
   countdownRef |-> countdownRef, timeouts |-> timeouts, loads |-> loads,
   loadCount |-> loadCount, submits |-> submits, loadedFor |-> loadedFor,
   xp |-> xp, badges |-> badges,
   event |-> quizEvent]

SetQuiz(s) ==
  /\ settings' = s.settings
  /\ questions' = s.questions
  /\ currentIndex' = s.currentIndex
  /\ selectedOption' = s.selectedOption
  /\ isAnswerSubmitted' = s.isAnswerSubmitted
  /\ responses' = s.responses
  /\ correctCount' = s.correctCount
  /\ isLoading' = s.isLoading
  /\ quizError' = s.quizError
  /\ summary' = s.summary
  /\ isSubmittingResults' = s.isSubmittingResults
  /\ quizMeta' = s.quizMeta
  /\ questionTimeLeft' = s.questionTimeLeft
  /\ totalTimeSpent' = s.totalTimeSpent
  /\ countdownRef' = s.countdownRef
  /\ timeouts' = s.timeouts
  /\ loads' = s.loads
  /\ loadCount' = s.loadCount
  /\ submits' = s.submits
  /\ loadedFor' = s.loadedFor
  /\ xp' = s.xp
  /\ badges' = s.badges
  /\ quizEvent' = s.event

\* questions[currentIndex] is defined
HasCurrent(s) == s.currentIndex >= 0 /\ s.currentIndex < Len(s.questions)

\* questions[currentIndex]
CurrentQuestion(s) == s.questions[s.currentIndex + 1]

CurrentId(s) == IF HasCurrent(s) THEN CurrentQuestion(s).id ELSE "none"

\* responses.some((resp) => resp.id === id)
HasResponse(rs, id) == \E i \in 1..Len(rs) : rs[i].id = id

\* quizMeta?.timePerQuestion ?? DEFAULT_TIME_LIMIT
TotalWindow(meta) == IF meta.set THEN meta.timePerQuestion ELSE DEFAULT_TIME_LIMIT

\* Math.round(x / y) for x >= 0, y > 0: halves round up
RoundDiv(x, y) == (2 * x + y) \div (2 * y)

\* Math.max(1, Math.min(totalWindow, timeTakenRaw))
ClampTime(totalWindow, raw) ==
  LET m == IF totalWindow < raw THEN totalWindow ELSE raw
  IN  IF m < 1 THEN 1 ELSE m

\* the values a callback created in the current render closes over
Closure(s) ==
  [currentIndex |-> s.currentIndex, nq |-> Len(s.questions), responses |-> s.responses,
   correctCount |-> s.correctCount, totalTimeSpent |-> s.totalTimeSpent,
   meta |-> s.quizMeta, settings |-> s.settings]

\* a step starts: the record of the previous step is replaced
Begin(s, kind) ==
  [s EXCEPT !.event = [kind |-> kind, qid |-> CurrentId(s),
                       open |-> /\ ~s.isAnswerSubmitted
                                /\ HasCurrent(s)
                                /\ ~HasResponse(s.responses, CurrentId(s)),
                       lenBefore |-> Len(s.responses), last |-> FALSE,
                       finish |-> FALSE, sent |-> FALSE, toast |-> "none"]]

\* the entry of the request payload made from a response
PayloadResponse(r) ==
  [id |-> r.id, selected |-> r.selected, correct |-> IF r.isCorrect THEN 1 ELSE 0,
   time_taken |-> r.timeTaken]

\* handleFinishQuiz, up to `await submitQuizResult(payload)`, with the values
\* c the callback closed over
HandleFinishQuiz_noGuard(s, c) ==
  [s EXCEPT !.isSubmittingResults = TRUE,
            !.submits = Append(@,
               [score |-> IF c.nq = 0 THEN 0 ELSE RoundDiv(c.correctCount * 100, c.nq),
                total_questions |-> c.nq,
                total_time_taken |-> c.totalTimeSpent,
                settings |-> c.settings,
                responses |-> [i \in 1..Len(c.responses) |-> PayloadResponse(c.responses[i])]]),
            !.event.finish = TRUE,
            !.event.sent = TRUE]

HandleFinishQuiz(s, c) ==
  IF Len(c.responses) # c.nq
  THEN [s EXCEPT !.event.finish = TRUE, !.event.toast = "Answer every question to finish."]
  ELSE [s EXCEPT !.isSubmittingResults = TRUE,
                 !.event.finish = TRUE,
                 !.submits = Append(@,
                    [score |-> RoundDiv(c.correctCount * 100, c.nq),
                     total_questions |-> c.nq,
                     total_time_taken |-> c.totalTimeSpent,
                     settings |-> c.settings,
                     responses |-> [i \in 1..Len(c.responses) |-> PayloadResponse(c.responses[i])]]),
                 !.event.sent = TRUE]

\* setCurrentIndex((idx) => idx + 1); setSelectedOption(null);
\* setIsAnswerSubmitted(false); setQuestionTimeLeft(...)
Advance(s, meta) ==
  [s EXCEPT !.currentIndex = @ + 1,
            !.selectedOption = NoOption,
            !.isAnswerSubmitted = FALSE,
            !.questionTimeLeft = TotalWindow(meta)]

\* handleSubmitAnswer
HandleSubmitAnswer(s) ==
  IF s.selectedOption = NoOption \/ ~HasCurrent(s)
  THEN [s EXCEPT !.event.toast = "Select an option first."]
  ELSE IF HasResponse(s.responses, CurrentQuestion(s).id) THEN s
  ELSE LET totalWindow == TotalWindow(s.quizMeta)
           timeTaken == ClampTime(totalWindow, totalWindow - s.questionTimeLeft)
           isCorrect == s.selectedOption = CurrentQuestion(s).answer
       IN  [s EXCEPT !.isAnswerSubmitted = TRUE,
                     !.correctCount = IF isCorrect THEN @ + 1 ELSE @,
                     !.totalTimeSpent = @ + timeTaken,
                     !.responses = Append(@, [id |-> CurrentQuestion(s).id,
                                              selected |-> s.selectedOption,
                                              isCorrect |-> isCorrect,
                                              timeTaken |-> timeTaken,
                                              timedOut |-> FALSE])]

\* handleNextQuestion
HandleNextQuestion(s) ==
  IF ~s.isAnswerSubmitted
  THEN [s EXCEPT !.event.toast = "Submit your answer before continuing."]
  ELSE LET s1 == [s EXCEPT !.countdownRef = FALSE]
       IN  IF s.currentIndex = Len(s.questions) - 1
           THEN HandleFinishQuiz(s1, Closure(s))
           ELSE Advance(s1, s.quizMeta)

\* handleTimeExpired as if it measured the time like handleSubmitAnswer
HandleTimeExpired_elapsed(s) ==
  IF s.isAnswerSubmitted \/ ~HasCurrent(s) THEN s
  ELSE IF HasResponse(s.responses, CurrentQuestion(s).id) THEN s
  ELSE LET totalWindow == TotalWindow(s.quizMeta)
           timeTaken == ClampTime(totalWindow, totalWindow - s.questionTimeLeft)
       IN  [s EXCEPT !.isAnswerSubmitted = TRUE,
                     !.selectedOption = TimedOutOption,
                     !.totalTimeSpent = @ + timeTaken,
                     !.responses = Append(@, [id |-> CurrentQuestion(s).id,
                                              selected |-> TimedOutOption,
                                              isCorrect |-> FALSE,
                                              timeTaken |-> timeTaken,
                                              timedOut |-> TRUE]),
                     !.questionTimeLeft = 0,
                     !.countdownRef = FALSE,
                     !.timeouts = Append(@, [closure |-> Closure(s), ticks |-> 0]),
                     !.event.toast = "Time's up!"]

\* handleTimeExpired: the 1200 ms callback is queued with the values of the
\* render in which handleTimeExpired was created
HandleTimeExpired(s) ==
  IF s.isAnswerSubmitted \/ ~HasCurrent(s) THEN s
  ELSE IF HasResponse(s.responses, CurrentQuestion(s).id) THEN s
  ELSE LET totalWindow == TotalWindow(s.quizMeta)
       IN  [s EXCEPT !.isAnswerSubmitted = TRUE,
                     !.selectedOption = TimedOutOption,
                     !.totalTimeSpent = @ + totalWindow,
                     !.responses = Append(@, [id |-> CurrentQuestion(s).id,
                                              selected |-> TimedOutOption,
                                              isCorrect |-> FALSE,
                                              timeTaken |-> totalWindow,
                                              timedOut |-> TRUE]),
                     !.questionTimeLeft = 0,
                     !.countdownRef = FALSE,
                     !.timeouts = Append(@, [closure |-> Closure(s), ticks |-> 0]),
                     !.event.toast = "Time's up!"]

\* the callback passed to window.setTimeout(..., 1200) in handleTimeExpired
DelayedCallback(s, c) ==
  IF c.currentIndex = c.nq - 1
  THEN HandleFinishQuiz([s EXCEPT !.event.last = TRUE], c)
  ELSE Advance(s, c.meta)

\* the interval callback: setQuestionTimeLeft((prev) => ...)
IntervalCallback(s) ==
  IF s.questionTimeLeft <= 1
  THEN [HandleTimeExpired([s EXCEPT !.countdownRef = FALSE, !.event.kind = "expired"])
          EXCEPT !.questionTimeLeft = 0]
  ELSE [s EXCEPT !.questionTimeLeft = @ - 1]

\* loadQuiz up to `await getQuiz(...)`
LoadQuizStart(s) ==
  [s EXCEPT !.countdownRef = FALSE,
            !.isLoading = TRUE,
            !.quizError = Null,
            !.summary = NoSummary,
            !.questions = <<>>,
            !.responses = <<>>,
            !.currentIndex = 0,
            !.selectedOption = NoOption,
            !.isAnswerSubmitted = FALSE,
            !.correctCount = 0,
            !.totalTimeSpent = 0,
            !.quizMeta = NoMeta,
            !.loadedFor = "none",
            !.loads = Append(@, [settings |-> s.settings]),
            !.loadCount = @ + 1]

\* loadQuiz after the request req resolved with the payload d
LoadQuizResolved(s, d, req) ==
  IF Len(d.items) = 0
  THEN [s EXCEPT !.quizError = "No questions available yet. Try a different mode or difficulty.",
                 !.isLoading = FALSE]
  ELSE LET timePerQuestion == IF d.time_per_question = -1 THEN DEFAULT_TIME_LIMIT
                              ELSE d.time_per_question
       IN  [s EXCEPT !.questions = d.items,
                     !.loadedFor = req.settings,
                     !.quizMeta = [set |-> TRUE, timePerQuestion |-> timePerQuestion],
                     !.questionTimeLeft = timePerQuestion,
                     !.isLoading = FALSE]

\* loadQuiz after getQuiz rejected
LoadQuizRejected(s) ==
  [s EXCEPT !.quizError = "Unable to load quiz.", !.isLoading = FALSE]

\* gamification store: addXp
addXp(s, amount) == [s EXCEPT !.xp = @ + amount]

\* gamification store: mergeBadges: Array.from(new Set([...state.badges, ...incoming]))
RECURSIVE Dedupe(_)
Dedupe(seq) ==
  IF seq = <<>> THEN <<>>
  ELSE LET init == Dedupe(SubSeq(seq, 1, Len(seq) - 1))
           x == seq[Len(seq)]
       IN  IF \E i \in 1..Len(init) : init[i] = x THEN init ELSE Append(init, x)

mergeBadges(s, incoming) == [s EXCEPT !.badges = Dedupe(@ \o incoming)]

\* handleFinishQuiz after submitQuizResult resolved with the result r for the payload p
FinishResolved(s, p, r) ==
  LET s1 == [s EXCEPT !.summary = [set |-> TRUE, score |-> p.score, awarded_xp |-> r.awarded_xp]]
      s2 == addXp(s1, r.awarded_xp)
      s3 == IF r.badges # <<>> THEN mergeBadges(s2, r.badges) ELSE s2
  IN  [s3 EXCEPT !.isSubmittingResults = FALSE]

\* handleFinishQuiz after submitQuizResult rejected
FinishRejected(s) ==
  [s EXCEPT !.event.toast = "Could not save your results.", !.isSubmittingResults = FALSE]

\* the dependencies of the countdown effect (handleTimeExpired and, through
\* it, handleFinishQuiz included)
CountdownDeps(s) ==
  <<s.quizMeta, s.summary, s.isLoading, Len(s.questions), s.isAnswerSubmitted, s.currentIndex,
    IF HasCurrent(s) THEN <<CurrentQuestion(s)>> ELSE <<>>,
    s.responses, s.correctCount, s.settings, s.totalTimeSpent>>

\* the render after a step: when a dependency changed, the countdown effect's
\* cleanup clears the interval and its body decides whether to start a new one
Render(old, new) ==
  IF CountdownDeps(old) = CountdownDeps(new) THEN new
  ELSE LET cleared == [new EXCEPT !.countdownRef = FALSE]
       IN  IF ~new.quizMeta.set \/ new.summary.set \/ new.isLoading \/ Len(new.questions) = 0
           THEN cleared
           ELSE IF new.isAnswerSubmitted THEN cleared
           ELSE [cleared EXCEPT
                   !.questionTimeLeft =
                      IF @ <= 0 \/ @ > new.quizMeta.timePerQuestion
                      THEN new.quizMeta.timePerQuestion ELSE @,
                   !.countdownRef = TRUE]

\* the question card with its buttons is on screen
QuestionShown ==
  /\ ~isLoading
  /\ quizError = Null
  /\ ~summary.set
  /\ Len(questions) > 0
  /\ HasCurrent(QuizState)

\* the component mounted: useState initial values, and the load effect has
\* called loadQuiz once
QuizInit ==
  /\ settings = "concept"
  /\ questions = <<>>
  /\ currentIndex = 0
  /\ selectedOption = NoOption
  /\ isAnswerSubmitted = FALSE
  /\ responses = <<>>
  /\ correctCount = 0
  /\ isLoading = TRUE
  /\ quizError = Null
  /\ summary = NoSummary
  /\ isSubmittingResults = FALSE
  /\ quizMeta = NoMeta
  /\ questionTimeLeft = DEFAULT_TIME_LIMIT
  /\ totalTimeSpent = 0
  /\ countdownRef = FALSE
  /\ timeouts = <<>>
  /\ loads = <<[settings |-> "concept"]>>
  /\ loadCount = 1
  /\ submits = <<>>
  /\ loadedFor = "none"
  /\ xp = 0
  /\ badges = <<>>
  /\ quizEvent = NoEvent

\* setMode / setDifficulty (or the profile's domain arrives): the load effect
\* calls loadQuiz with the new selection
ChangeSettings ==
  /\ loadCount < MaxLoads
  /\ \E m \in Settings :
       /\ m # settings
       /\ LET s0 == Begin(QuizState, "load")
          IN  SetQuiz(Render(QuizState, LoadQuizStart([s0 EXCEPT !.settings = m])))
  /\ UNCHANGED <<formVars, valVars, authVars, apiVars, uniVars, pageVars>>

\* 'Try again', 'Take another quiz' (handleRetake) and 'Refresh questions'
Retake ==
  /\ loadCount < MaxLoads
  /\ ~isLoading
  /\ quizError # Null \/ summary.set
  /\ SetQuiz(Render(QuizState, LoadQuizStart(Begin(QuizState, "load"))))
  /\ UNCHANGED <<formVars, valVars, authVars, apiVars, uniVars, pageVars>>

\* getQuiz resolves
LoadResolves ==
  /\ \E i \in 1..Len(loads) : \E d \in QuizPayloads :
       LET s0 == [Begin(QuizState, "loaded") EXCEPT
                    !.loads = SubSeq(@, 1, i - 1) \o SubSeq(@, i + 1, Len(@))]
       IN  SetQuiz(Render(QuizState, LoadQuizResolved(s0, d, loads[i])))
  /\ UNCHANGED <<formVars, valVars, authVars, apiVars, uniVars, pageVars>>

\* getQuiz rejects
LoadRejects ==
  /\ \E i \in 1..Len(loads) :
       LET s0 == [Begin(QuizState, "loadFailed") EXCEPT
                    !.loads = SubSeq(@, 1, i - 1) \o SubSeq(@, i + 1, Len(@))]
       IN  SetQuiz(Render(QuizState, LoadQuizRejected(s0)))
  /\ UNCHANGED <<formVars, valVars, authVars, apiVars, uniVars, pageVars>>

\* handleSelectOption
SelectOption ==
  /\ QuestionShown
  /\ \E o \in Options :
       SetQuiz(Render(QuizState,
                      IF isAnswerSubmitted THEN Begin(QuizState, "select")
                      ELSE [Begin(QuizState, "select") EXCEPT !.selectedOption = o]))
  /\ UNCHANGED <<formVars, valVars, authVars, apiVars, uniVars, pageVars>>

\* 'Lock answer' (shown while no answer is submitted, disabled without a selection)
SubmitAnswer ==
  /\ QuestionShown
  /\ ~isAnswerSubmitted
  /\ selectedOption # NoOption
  /\ SetQuiz(Render(QuizState, HandleSubmitAnswer(Begin(QuizState, "answer"))))
  /\ UNCHANGED <<formVars, valVars, authVars, apiVars, uniVars, pageVars>>

\* 'Next question' / 'Finish quiz' (shown once an answer is submitted,
\* disabled while results are being submitted)
NextQuestion ==
  /\ QuestionShown
  /\ isAnswerSubmitted
  /\ ~isSubmittingResults
  /\ SetQuiz(Render(QuizState, HandleNextQuestion(Begin(QuizState, "next"))))
  /\ UNCHANGED <<formVars, valVars, authVars, apiVars, uniVars, pageVars>>

\* the 1 s interval fires; a 1200 ms timeout that has already seen a tick fires
\* before the next one (ticks are at least 1000 ms apart)
Tick ==
  /\ countdownRef
  /\ \A i \in 1..Len(timeouts) : timeouts[i].ticks = 0
  /\ LET s0 == [Begin(QuizState, "tick") EXCEPT
                  !.timeouts = [i \in 1..Len(@) |-> [@[i] EXCEPT !.ticks = 1]]]
     IN  SetQuiz(Render(QuizState, IntervalCallback(s0)))
  /\ UNCHANGED <<formVars, valVars, authVars, apiVars, uniVars, pageVars>>

\* the oldest pending 1200 ms timeout fires
DelayedFire ==
  /\ timeouts # <<>>
  /\ LET s0 == [Begin(QuizState, "delayed") EXCEPT !.timeouts = Tail(@)]
     IN  SetQuiz(Render(QuizState, DelayedCallback(s0, Head(timeouts).closure)))
  /\ UNCHANGED <<formVars, valVars, authVars, apiVars, uniVars, pageVars>>

\* submitQuizResult resolves
SubmitResolves ==
  /\ \E i \in 1..Len(submits) : \E r \in QuizResults :
       LET s0 == [Begin(QuizState, "submitted") EXCEPT
                    !.submits = SubSeq(@, 1, i - 1) \o SubSeq(@, i + 1, Len(@))]
       IN  SetQuiz(Render(QuizState, FinishResolved(s0, submits[i], r)))
  /\ UNCHANGED <<formVars, valVars, authVars, apiVars, uniVars, pageVars>>

\* submitQuizResult rejects
SubmitRejects ==
  /\ \E i \in 1..Len(submits) :
       LET s0 == [Begin(QuizState, "submitFailed") EXCEPT
                    !.submits = SubSeq(@, 1, i - 1) \o SubSeq(@, i + 1, Len(@))]
       IN  SetQuiz(Render(QuizState, FinishRejected(s0)))
  /\ UNCHANGED <<formVars, valVars, authVars, apiVars, uniVars, pageVars>>

QuizNext ==
  \/ ChangeSettings
  \/ Retake
  \/ LoadResolves
  \/ LoadRejects
  \/ SelectOption
  \/ SubmitAnswer
  \/ NextQuestion
  \/ Tick
  \/ DelayedFire
  \/ SubmitResolves
  \/ SubmitRejects

\* ------------------------------------------------------------------------
\* store/useAppStore, store/gamification and a reload of the page
\* ------------------------------------------------------------------------
XpAmounts == {20, 40, 120}
BadgeLists == {<<"b1">>, <<"b2">>, <<"b1", "b2">>}
MaxXp == 160

NoReload == [set |-> FALSE, darkMode |-> FALSE, xp |-> 0, badges |-> <<>>]

StoreState == [darkMode |-> darkMode, docDark |-> docDark, xp |-> xp, badges |-> badges]

\* the Quiz component's own state, which the stores' actions leave alone
quizPageVars ==
  <<settings, questions, currentIndex, selectedOption, isAnswerSubmitted, responses,
    correctCount, isLoading, quizError, summary, isSubmittingResults, quizMeta,
    questionTimeLeft, totalTimeSpent, countdownRef, timeouts, loads, loadCount,
    submits, loadedFor, quizEvent>>

SetStore(s) ==
  /\ darkMode' = s.darkMode
  /\ docDark' = s.docDark
  /\ xp' = s.xp
  /\ badges' = s.badges

\* useAppStore: toggleDark
toggleDark(s) == [s EXCEPT !.darkMode = ~s.darkMode, !.docDark = ~s.darkMode]

\* gamification store: reset
reset(s) == [s EXCEPT !.xp = 0, !.badges = <<>>]

\* create() of useAppStore and of useGamificationStore: the initial state is
\* the literal in the source; nothing is read from browser storage
StoreCreate(s) == [s EXCEPT !.darkMode = FALSE, !.docDark = FALSE, !.xp = 0, !.badges = <<>>]

StoreInit ==
  /\ darkMode = FALSE
  /\ docDark = FALSE
  /\ beforeReload = NoReload

ToggleDark ==
  /\ SetStore(toggleDark(StoreState))
  /\ beforeReload' = NoReload
  /\ UNCHANGED <<formVars, valVars, authVars, apiVars, uniVars, quizPageVars, learnVars, queryVars, siteVars, projVars>>

CallAddXp ==
  /\ \E amount \in XpAmounts :
       /\ xp + amount <= MaxXp
       /\ SetStore(addXp(StoreState, amount))
  /\ beforeReload' = NoReload
  /\ UNCHANGED <<formVars, valVars, authVars, apiVars, uniVars, quizPageVars, learnVars, queryVars, siteVars, projVars>>

CallMergeBadges ==
  /\ \E incoming \in BadgeLists : SetStore(mergeBadges(StoreState, incoming))
  /\ beforeReload' = NoReload
  /\ UNCHANGED <<formVars, valVars, authVars, apiVars, uniVars, quizPageVars, learnVars, queryVars, siteVars, projVars>>

CallReset ==
  /\ SetStore(reset(StoreState))
  /\ beforeReload' = NoReload
  /\ UNCHANGED <<formVars, valVars, authVars, apiVars, uniVars, quizPageVars, learnVars, queryVars, siteVars, projVars>>

\* the browser reloads the page: every module is evaluated again, so each store
\* is created anew; localStorage is what survives.  (The components' state is
\* re-created too; under SpecStore it never leaves its initial value.)
Reload ==
  /\ beforeReload' = [set |-> TRUE, darkMode |-> darkMode, xp |-> xp, badges |-> badges]
  /\ SetStore(StoreCreate(StoreState))
  /\ token' = GetItem(lsToken)
  /\ user' = JSONparse(IF Truthy(GetItem(lsUser)) THEN GetItem(lsUser) ELSE "null")
  /\ inflight' = 0
  /\ lastResponse' = NoResponse
  /\ UNCHANGED <<lsToken, lsUser, location>>
  /\ UNCHANGED <<formVars, valVars, apiVars, uniVars, quizPageVars, learnVars, queryVars, siteVars, projVars>>

StoreNext ==
  \/ ToggleDark
  \/ CallAddXp
  \/ CallMergeBadges
  \/ CallReset
  \/ Reload
  \/ CallSetToken
  \/ CallSetUser
  \/ CallLogout

\* ------------------------------------------------------------------------
\* LearningPage: handleToggleSkill
\* ------------------------------------------------------------------------
CardKeys == {"k1", "k2"}
MaxProgressReqs == 2

\* JS `!v` of a flag that may be missing from the record
Not(v) == IF v = "true" THEN "false" ELSE "true"

NoLearnEvent == [kind |-> "none", key |-> "none", next |-> "none", toast |-> "none"]

LearnState == [completed |-> completed, progressReqs |-> progressReqs, event |-> learnEvent]

SetLearn(s) ==
  /\ completed' = s.completed
  /\ progressReqs' = s.progressReqs
  /\ learnEvent' = s.event

\* handleToggleSkill up to the await: the optimistic update and the request
handleToggleSkill(s, key) ==
  LET next == Not(s.completed[key])
  IN  [s EXCEPT !.completed[key] = next,
                !.progressReqs = Append(@, [key |-> key, next |-> next]),
                !.event = [kind |-> "toggled", key |-> key, next |-> next, toast |-> "none"]]

\* handleToggleSkill after trackProgress resolved: nothing more happens
ToggleResolved(s, r) ==
  [s EXCEPT !.event = [kind |-> "progressSaved", key |-> r.key, next |-> r.next,
                       toast |-> "none"]]

ToggleRejected_noRollback(s, r) ==
  [s EXCEPT !.event = [kind |-> "progressFailed", key |-> r.key, next |-> r.next,
                       toast |-> "Unable to update progress right now."]]

\* handleToggleSkill's catch block
ToggleRejected(s, r) ==
  [s EXCEPT !.completed[r.key] = Not(r.next),
            !.event = [kind |-> "progressFailed", key |-> r.key, next |-> r.next,
                       toast |-> "Unable to update progress right now."]]

LearnInit ==
  /\ completed = [k \in CardKeys |-> Undefined]
  /\ progressReqs = <<>>
  /\ learnEvent = NoLearnEvent

RemoveAt(seq, i) == SubSeq(seq, 1, i - 1) \o SubSeq(seq, i + 1, Len(seq))

ToggleSkill ==
  /\ Len(progressReqs) < MaxProgressReqs
  /\ \E key \in CardKeys : SetLearn(handleToggleSkill(LearnState, key))
  /\ UNCHANGED <<formVars, valVars, authVars, apiVars, uniVars, quizVars, storeVars, queryVars, siteVars, projVars>>

ProgressResolves ==
  /\ \E i \in 1..Len(progressReqs) :
       SetLearn(ToggleResolved([LearnState EXCEPT !.progressReqs = RemoveAt(@, i)],
                               progressReqs[i]))
  /\ UNCHANGED <<formVars, valVars, authVars, apiVars, uniVars, quizVars, storeVars, queryVars, siteVars, projVars>>

ProgressRejects ==
  /\ \E i \in 1..Len(progressReqs) :
       SetLearn(ToggleRejected([LearnState EXCEPT !.progressReqs = RemoveAt(@, i)],
                               progressReqs[i]))
  /\ UNCHANGED <<formVars, valVars, authVars, apiVars, uniVars, quizVars, storeVars, queryVars, siteVars, projVars>>

LearnNext ==
  \/ ToggleSkill
  \/ ProgressResolves
  \/ ProgressRejects

\* ------------------------------------------------------------------------
\* Data queries: the Projects and LearningPage useQuery calls under the
\* QueryClient created without default options
\* ------------------------------------------------------------------------
\* the `retry` option each useQuery call passes ("unset": the option is absent)
QueryOptions ==
  [projects      |-> [retry |-> "unset"],
   projectDetail |-> [retry |-> "unset"],
   learningPath  |-> [retry |-> "false"]]

QueryNames == DOMAIN QueryOptions

\* number of retries of a failed fetch: `retry: false` gives none; with the
\* option unset and `new QueryClient()` carrying no defaultOptions the
\* library's default of 3 applies
RetryCount(name) == IF QueryOptions[name].retry = "false" THEN 0 ELSE 3

IdleQuery == [status |-> "idle", failureCount |-> 0, sent |-> 0]

NoQueryEvent == [kind |-> "none", name |-> "none"]

\* the query becomes enabled or its key changes (mount, filter or selection
\* change by the user): one fetch is started
QueryActivated(q) == [q EXCEPT !.status = "fetching", !.failureCount = 0, !.sent = 1]

\* the queryFn's promise rejects: retry after a back-off delay while
\* failureCount < retry, otherwise the query is in error
QueryFetchFailed(q, name) ==
  IF q.failureCount < RetryCount(name)
  THEN [q EXCEPT !.status = "retryWait", !.failureCount = @ + 1]
  ELSE [q EXCEPT !.status = "error", !.failureCount = @ + 1]

\* the back-off delay has passed: the queryFn is called again
QueryRetried(q) == [q EXCEPT !.status = "fetching", !.sent = @ + 1]

QueryFetchSucceeded(q) == [q EXCEPT !.status = "success", !.failureCount = 0]

QueryInit ==
  /\ queries = [n \in QueryNames |-> IdleQuery]
  /\ queryEvent = NoQueryEvent

ActivateQuery ==
  /\ \E n \in QueryNames :
       /\ queries[n].status \in {"idle", "error", "success"}
       /\ queries' = [queries EXCEPT ![n] = QueryActivated(@)]
       /\ queryEvent' = [kind |-> "activated", name |-> n]
  /\ UNCHANGED <<formVars, valVars, authVars, apiVars, uniVars, quizVars, storeVars, learnVars, siteVars, projVars>>

QueryFails ==
  /\ \E n \in QueryNames :
       /\ queries[n].status = "fetching"
       /\ queries' = [queries EXCEPT ![n] = QueryFetchFailed(@, n)]
       /\ queryEvent' = [kind |-> "failed", name |-> n]
  /\ UNCHANGED <<formVars, valVars, authVars, apiVars, uniVars, quizVars, storeVars, learnVars, siteVars, projVars>>

RetryTimerFires ==
  /\ \E n \in QueryNames :
       /\ queries[n].status = "retryWait"
       /\ queries' = [queries EXCEPT ![n] = QueryRetried(@)]
       /\ queryEvent' = [kind |-> "retried", name |-> n]
  /\ UNCHANGED <<formVars, valVars, authVars, apiVars, uniVars, quizVars, storeVars, learnVars, siteVars, projVars>>

QuerySucceeds ==
  /\ \E n \in QueryNames :
       /\ queries[n].status = "fetching"
       /\ queries' = [queries EXCEPT ![n] = QueryFetchSucceeded(@)]
       /\ queryEvent' = [kind |-> "succeeded", name |-> n]
  /\ UNCHANGED <<formVars, valVars, authVars, apiVars, uniVars, quizVars, storeVars, learnVars, siteVars, projVars>>

QueryNext ==
  \/ ActivateQuery
  \/ QueryFails
  \/ RetryTimerFires
  \/ QuerySucceeds

\* ------------------------------------------------------------------------
\* Call sites of plain promise-based requests and what their code does with a
\* rejection: `catch` is whether a rejection handler is attached (try/catch
\* around the await, or .catch), `toast` the toast.error it shows, `fallback`
\* whether it puts hard-coded data in place of the response
\* ------------------------------------------------------------------------
CallSites ==
  [profileLoad      |-> [catch |-> FALSE, toast |-> "none", fallback |-> FALSE],
   profileSave      |-> [catch |-> TRUE, toast |-> "Failed to save", fallback |-> FALSE],
   dashboardLoad    |-> [catch |-> TRUE, toast |-> "none", fallback |-> FALSE],
   simulateProgress |-> [catch |-> TRUE, toast |-> "none", fallback |-> FALSE],
   universityLookup |-> [catch |-> TRUE, toast |-> "none", fallback |-> TRUE]]

SiteNames == DOMAIN CallSites

NoSiteEvent == [kind |-> "none", site |-> "none", outcome |-> "none", toast |-> "none"]

\* what becomes of a rejected request promise at the call site
RejectionOutcome(site) ==
  IF ~site.catch THEN "unhandledrejection"
  ELSE IF site.toast # "none" THEN "toast"
  ELSE IF site.fallback THEN "fallback"
  ELSE "console.error"

SiteInit ==
  /\ sitePending = {}
  /\ siteEvent = NoSiteEvent

IssueRequest ==
  /\ \E n \in SiteNames \ sitePending :
       /\ sitePending' = sitePending \cup {n}
       /\ siteEvent' = [NoSiteEvent EXCEPT !.kind = "issued", !.site = n]
  /\ UNCHANGED <<formVars, valVars, authVars, apiVars, uniVars, quizVars, storeVars, learnVars, queryVars, projVars>>

RequestSucceeds ==
  /\ \E n \in sitePending :
       /\ sitePending' = sitePending \ {n}
       /\ siteEvent' = [NoSiteEvent EXCEPT !.kind = "succeeded", !.site = n]
  /\ UNCHANGED <<formVars, valVars, authVars, apiVars, uniVars, quizVars, storeVars, learnVars, queryVars, projVars>>

RequestFails ==
  /\ \E n \in sitePending :
       /\ sitePending' = sitePending \ {n}
       /\ siteEvent' = [kind |-> "failed", site |-> n,
                        outcome |-> RejectionOutcome(CallSites[n]),
                        toast |-> IF CallSites[n].catch THEN CallSites[n].toast ELSE "none"]
  /\ UNCHANGED <<formVars, valVars, authVars, apiVars, uniVars, quizVars, storeVars, learnVars, queryVars, projVars>>

SiteNext ==
  \/ IssueRequest
  \/ RequestSucceeds
  \/ RequestFails

\* ------------------------------------------------------------------------
\* Projects (start / step / submit mutations, handleXp, invalidateProjects)
\* and CodingPage (submit mutation)
\* ------------------------------------------------------------------------
MutationKinds == {"start", "step", "submit", "coding"}

\* what POST /coding/submit may answer
CodingResults ==
  { [xp_awarded |-> 0, badges |-> <<>>],
    [xp_awarded |-> 15, badges |-> <<"b2">>] }

GithubUrls == {"", "repo"}

MaxMutations == 1

NoProjEvent == [kind |-> "none", mutation |-> "none", toast |-> "none"]

ProjState ==
  [xp |-> xp, badges |-> badges, lastXpAwarded |-> lastXpAwarded, xpTimers |-> xpTimers,
   githubUrl |-> githubUrl, pendingMutations |-> pendingMutations,
   mutationCount |-> mutationCount, queries |-> queries, event |-> projEvent]

SetProj(s) ==
  /\ xp' = s.xp
  /\ badges' = s.badges
  /\ lastXpAwarded' = s.lastXpAwarded
  /\ xpTimers' = s.xpTimers
  /\ githubUrl' = s.githubUrl
  /\ pendingMutations' = s.pendingMutations
  /\ mutationCount' = s.mutationCount
  /\ queries' = s.queries
  /\ projEvent' = s.event

\* handleXp(amount, badges)
handleXp(s, amount, incoming) ==
  LET s1 == IF amount > 0
            THEN [addXp(s, amount) EXCEPT !.lastXpAwarded = amount, !.xpTimers = @ + 1]
            ELSE s
  IN  IF Len(incoming) > 0 THEN mergeBadges(s1, incoming) ELSE s1

\* invalidateProjects: the projects query, and the detail query of the
\* selected project, are refetched when they are in use
invalidateProjects(s) ==
  [s EXCEPT !.queries =
     [n \in QueryNames |->
        IF n \in {"projects", "projectDetail"} /\ s.queries[n].status # "idle"
        THEN QueryActivated(s.queries[n]) ELSE s.queries[n]]]

\* the XP a successful Projects mutation awards
XpFor(kind) ==
  CASE kind = "start"  -> 40
    [] kind = "step"   -> 20
    [] kind = "submit" -> 120

SuccessToast(kind) ==
  CASE kind = "start"  -> "Project kicked off! Time to build."
    [] kind = "step"   -> "Step recorded! Keep shipping."
    [] kind = "submit" -> "Project submitted - portfolio leveled up!"

ErrorToast(kind) ==
  CASE kind = "start"  -> "Unable to start project."
    [] kind = "step"   -> "Unable to log step right now."
    [] kind = "submit" -> "Submission failed. Check GitHub URL and try again."
    [] kind = "coding" -> "Unable to grade submission."

\* onSuccess of startMutation / stepMutation / submitMutation
ProjectOnSuccess(s, kind) ==
  LET s1 == [s EXCEPT !.event = [kind |-> "mutationSucceeded", mutation |-> kind,
                                 toast |-> SuccessToast(kind)]]
      s2 == handleXp(s1, XpFor(kind), IF kind = "submit" THEN <<"Portfolio Finisher">> ELSE <<>>)
      s3 == IF kind = "submit" THEN [s2 EXCEPT !.githubUrl = ""] ELSE s2
  IN  invalidateProjects(s3)

\* onSuccess of CodingPage's submitMutation with the response data
CodingOnSuccess(s, data) ==
  LET s1 == [s EXCEPT !.event = [kind |-> "mutationSucceeded", mutation |-> "coding",
                                 toast |-> "none"]]
      s2 == IF data.xp_awarded # 0 THEN addXp(s1, data.xp_awarded) ELSE s1
  IN  IF Len(data.badges) > 0 THEN mergeBadges(s2, data.badges) ELSE s2

MutationOnError_awardsXp(s, kind) ==
  [addXp(s, 20) EXCEPT !.event = [kind |-> "mutationFailed", mutation |-> kind,
                                  toast |-> ErrorToast(kind)]]

\* onError of the four mutations: a toast
MutationOnError(s, kind) ==
  [s EXCEPT !.event = [kind |-> "mutationFailed", mutation |-> kind,
                       toast |-> ErrorToast(kind)]]

ProjInit ==
  /\ pendingMutations = {}
  /\ mutationCount = 0
  /\ lastXpAwarded = 0
  /\ xpTimers = 0
  /\ githubUrl = ""
  /\ projEvent = NoProjEvent

\* typing into the repository field
SetGithubUrl ==
  /\ \E u \in GithubUrls : u # githubUrl /\ githubUrl' = u
  /\ projEvent' = NoProjEvent
  /\ UNCHANGED <<pendingMutations, mutationCount, lastXpAwarded, xpTimers>>
  /\ UNCHANGED <<formVars, valVars, authVars, apiVars, uniVars, quizVars, storeVars, learnVars, queryVars,
                 siteVars>>

\* a button calls mutate(); each button is disabled while its mutation is in
\* flight, and 'Submit Project' refuses an empty repository field
Mutate ==
  /\ mutationCount < MaxMutations
  /\ \E kind \in MutationKinds \ pendingMutations :
       IF kind = "submit" /\ githubUrl = ""
       THEN SetProj([ProjState EXCEPT
                       !.event = [kind |-> "refused", mutation |-> kind,
                                  toast |-> "Please add a GitHub repo link before submitting."]])
       ELSE SetProj([ProjState EXCEPT
                       !.pendingMutations = @ \cup {kind},
                       !.mutationCount = @ + 1,
                       !.event = [kind |-> "mutate", mutation |-> kind, toast |-> "none"]])
  /\ UNCHANGED queryEvent
  /\ UNCHANGED <<formVars, valVars, authVars, apiVars, uniVars, quizPageVars, storeVars, learnVars, siteVars>>

MutationSucceeds ==
  /\ \E kind \in pendingMutations :
       LET s0 == [ProjState EXCEPT !.pendingMutations = @ \ {kind}]
       IN  IF kind = "coding"
           THEN \E data \in CodingResults : SetProj(CodingOnSuccess(s0, data))
           ELSE SetProj(ProjectOnSuccess(s0, kind))
  /\ UNCHANGED queryEvent
  /\ UNCHANGED <<formVars, valVars, authVars, apiVars, uniVars, quizPageVars, storeVars, learnVars, siteVars>>

MutationFails ==
  /\ \E kind \in pendingMutations :
       SetProj(MutationOnError([ProjState EXCEPT !.pendingMutations = @ \ {kind}], kind))
  /\ UNCHANGED queryEvent
  /\ UNCHANGED <<formVars, valVars, authVars, apiVars, uniVars, quizPageVars, storeVars, learnVars, siteVars>>

\* setTimeout(() => setLastXpAwarded(0), 3000)
XpBannerTimeout ==
  /\ xpTimers > 0
  /\ xpTimers' = xpTimers - 1
  /\ lastXpAwarded' = 0
  /\ projEvent' = NoProjEvent
  /\ UNCHANGED <<pendingMutations, mutationCount, githubUrl>>
  /\ UNCHANGED <<formVars, valVars, authVars, apiVars, uniVars, quizVars, storeVars, learnVars, queryVars,
                 siteVars>>

ProjNext ==
  \/ SetGithubUrl
  \/ Mutate
  \/ MutationSucceeds
  \/ MutationFails
  \/ XpBannerTimeout

\* the pages that award XP, side by side: one quiz attempt from its load to
\* the submission of its results, the Projects mutations and the CodingPage
\* submission
XpNext ==
  \/ LoadResolves
  \/ LoadRejects
  \/ SelectOption
  \/ SubmitAnswer
  \/ NextQuestion
  \/ Tick
  \/ DelayedFire
  \/ SubmitResolves
  \/ SubmitRejects
  \/ ProjNext

\* ------------------------------------------------------------------------
\* ResumeBuilder: handleUpload, the 1000 ms callback, runFullAnalysis
\* ------------------------------------------------------------------------
MaxUploads == 3

NoResumeEvent == [kind |-> "none", by |-> "none", sent |-> FALSE, toast |-> "none"]

ResumeState ==
  [hasUploaded |-> hasUploaded, loading |-> resumeLoading, analyzing |-> analyzing,
   showAnalysis |-> showAnalysis, uploadReqs |-> uploadReqs, uploadCount |-> uploadCount,
   analysisTimers |-> analysisTimers, analyzeReqs |-> analyzeReqs,
   lastUpload |-> lastUpload, event |-> resumeEvent]

SetResume(s) ==
  /\ hasUploaded' = s.hasUploaded
  /\ resumeLoading' = s.loading
  /\ analyzing' = s.analyzing
  /\ showAnalysis' = s.showAnalysis
  /\ uploadReqs' = s.uploadReqs
  /\ uploadCount' = s.uploadCount
  /\ analysisTimers' = s.analysisTimers
  /\ analyzeReqs' = s.analyzeReqs
  /\ lastUpload' = s.lastUpload
  /\ resumeEvent' = s.event

\* runFullAnalysis as created by a render in which hasUploaded was `seen`
runFullAnalysis(s, seen, by) ==
  IF ~seen
  THEN [s EXCEPT !.event = [kind |-> "analysis", by |-> by, sent |-> FALSE,
                            toast |-> "Upload a resume before running the AI analysis."]]
  ELSE [s EXCEPT !.analyzing = TRUE,
                 !.analyzeReqs = @ + 1,
                 !.event = [kind |-> "analysis", by |-> by, sent |-> TRUE, toast |-> "none"]]

\* handleUpload up to `await uploadResume(f)`; the handler, and the
\* runFullAnalysis it refers to, belong to the render that is on screen
handleUpload(s) ==
  [s EXCEPT !.loading = TRUE,
            !.showAnalysis = FALSE,
            !.uploadReqs = Append(@, [seen |-> s.hasUploaded]),
            !.uploadCount = @ + 1,
            !.event = [kind |-> "uploadStarted", by |-> "none", sent |-> FALSE,
                       toast |-> "none"]]

\* handleUpload after uploadResume resolved, with its finally block
UploadResolved(s, u) ==
  [s EXCEPT !.hasUploaded = TRUE,
            !.analysisTimers = Append(@, [seen |-> u.seen]),
            !.loading = FALSE,
            !.lastUpload = "succeeded",
            !.event = [kind |-> "uploaded", by |-> "none", sent |-> FALSE,
                       toast |-> "Resume uploaded! Analyzing with AI..."]]

\* handleUpload's catch and finally blocks
UploadRejected(s, u) ==
  [s EXCEPT !.hasUploaded = FALSE,
            !.loading = FALSE,
            !.lastUpload = "failed",
            !.event = [kind |-> "uploadFailed", by |-> "none", sent |-> FALSE,
                       toast |-> "Failed to upload resume"]]

\* runFullAnalysis after analyzeResume resolved, with its finally block
AnalyzeResolved(s) ==
  [s EXCEPT !.showAnalysis = TRUE,
            !.analyzing = FALSE,
            !.event = [kind |-> "analyzed", by |-> "none", sent |-> FALSE,
                       toast |-> "AI analysis complete! Taking you to your learning plan..."]]

\* runFullAnalysis's catch and finally blocks
AnalyzeRejected(s) ==
  [s EXCEPT !.analyzing = FALSE,
            !.event = [kind |-> "analyzeFailed", by |-> "none", sent |-> FALSE,
                       toast |-> "Failed to analyze resume"]]

\* the state after the mount effect
ResumeInit ==
  /\ hasUploaded = FALSE
  /\ resumeLoading = FALSE
  /\ analyzing = FALSE
  /\ showAnalysis = FALSE
  /\ uploadReqs = <<>>
  /\ uploadCount = 0
  /\ analysisTimers = <<>>
  /\ analyzeReqs = 0
  /\ lastUpload = "none"
  /\ resumeEvent = NoResumeEvent

\* the user picks a file; the input is disabled while loading or analyzing
ChooseFile ==
  /\ ~resumeLoading /\ ~analyzing
  /\ uploadCount < MaxUploads
  /\ SetResume(handleUpload(ResumeState))
  /\ UNCHANGED <<loginVars, valVars, authVars, apiVars, uniVars, quizVars, pageVars>>

UploadResolves ==
  /\ \E i \in 1..Len(uploadReqs) :
       SetResume(UploadResolved([ResumeState EXCEPT !.uploadReqs = RemoveAt(@, i)],
                                uploadReqs[i]))
  /\ UNCHANGED <<loginVars, valVars, authVars, apiVars, uniVars, quizVars, pageVars>>

UploadRejects ==
  /\ \E i \in 1..Len(uploadReqs) :
       SetResume(UploadRejected([ResumeState EXCEPT !.uploadReqs = RemoveAt(@, i)],
                                uploadReqs[i]))
  /\ UNCHANGED <<loginVars, valVars, authVars, apiVars, uniVars, quizVars, pageVars>>

\* the callback of setTimeout(..., 1000) set by a successful upload
AnalysisTimerFires ==
  /\ \E i \in 1..Len(analysisTimers) :
       SetResume(runFullAnalysis([ResumeState EXCEPT !.analysisTimers = RemoveAt(@, i)],
                                 analysisTimers[i].seen, "timer"))
  /\ UNCHANGED <<loginVars, valVars, authVars, apiVars, uniVars, quizVars, pageVars>>

\* the analysis button; it is disabled while analyzing or without an upload
ClickAnalyze ==
  /\ ~analyzing /\ hasUploaded
  /\ SetResume(runFullAnalysis(ResumeState, hasUploaded, "button"))
  /\ UNCHANGED <<loginVars, valVars, authVars, apiVars, uniVars, quizVars, pageVars>>

AnalyzeResolves ==
  /\ analyzeReqs > 0
  /\ SetResume(AnalyzeResolved([ResumeState EXCEPT !.analyzeReqs = @ - 1]))
  /\ UNCHANGED <<loginVars, valVars, authVars, apiVars, uniVars, quizVars, pageVars>>

AnalyzeRejects ==
  /\ analyzeReqs > 0
  /\ SetResume(AnalyzeRejected([ResumeState EXCEPT !.analyzeReqs = @ - 1]))
  /\ UNCHANGED <<loginVars, valVars, authVars, apiVars, uniVars, quizVars, pageVars>>

ResumeNext ==
  \/ ChooseFile
  \/ UploadResolves
  \/ UploadRejects
  \/ AnalysisTimerFires
  \/ ClickAnalyze
  \/ AnalyzeResolves
  \/ AnalyzeRejects

\* ------------------------------------------------------------------------
\* pages/Login: handleLogin
\* ------------------------------------------------------------------------
LoginEmails    == { <<"a","@","b",".","c","o","m">>, <<"a","b",".","c","o","m">> }
LoginPasswords == { <<"P","a","s","s","w","0","r","d","!">>, <<"s","h","o","r","t">> }

\* loginResponse.data.access_token and profResponse.data as the backend may send them
AccessTokens == {Undefined, "", "t1", "t2"}
ProfileData  == {Null, "u1"}

\* err.response.status of a rejected request (NetworkError: no response) and
\* err.response.data.detail
LoginFailures == {401, 404, 500, NetworkError}
Details       == {Undefined, "Invalid credentials"}

\* axios' err.message
AxiosMessage(status) ==
  CASE status = 401 -> "Request failed with status code 401"
    [] status = 404 -> "Request failed with status code 404"
    [] status = 500 -> "Request failed with status code 500"
    [] OTHER        -> "Network Error"

\* e?.response?.data?.detail || e?.message || 'Login failed'
ErrorMessage(detail, message) ==
  IF detail # Undefined /\ detail # "" THEN detail
  ELSE IF message # Undefined /\ message # "" THEN message
  ELSE "Login failed"

\* the toast chosen by the includes() tests of the catch block
LoginToast(errorMessage) ==
  IF errorMessage \in {"Invalid credentials", "Request failed with status code 401"}
  THEN "Invalid email or password. Please check your credentials."
  ELSE IF errorMessage = "Request failed with status code 404"
  THEN "User not found. Please register first."
  ELSE IF errorMessage \in {"Network Error", "Failed to fetch profile"}
  THEN "Connection error. Please check if the backend server is running."
  ELSE errorMessage

NoLoginReq   == [stage |-> "none", fresh |-> FALSE]
NoLoginEvent == [path |-> "none", toast |-> "none", fresh |-> FALSE]

LoginState ==
  [token |-> token, user |-> user, lsToken |-> lsToken, lsUser |-> lsUser,
   location |-> location, lastResponse |-> lastResponse,
   loading |-> loginLoading, req |-> loginReq, event |-> loginEvent]

SetLogin(s) ==
  /\ token' = s.token
  /\ user' = s.user
  /\ lsToken' = s.lsToken
  /\ lsUser' = s.lsUser
  /\ location' = s.location
  /\ lastResponse' = s.lastResponse
  /\ loginLoading' = s.loading
  /\ loginReq' = s.req
  /\ loginEvent' = s.event

\* the response interceptor's error handler, through which every rejected
\* request of `api` passes before handleLogin sees it
InterceptRejected(s, status) ==
  LET s1 == [s EXCEPT !.lastResponse = status]
  IN  IF IsUnauthorized(status) THEN [logout(s1) EXCEPT !.location = "/login"] ELSE s1

\* handleLogin up to `await loginUser(...)`
handleLogin(s, email, password) ==
  IF ~validateEmail(email).valid \/ ~validatePassword(password).valid
  THEN [s EXCEPT !.event = [path |-> "invalid", toast |-> "none", fresh |-> FALSE]]
  ELSE [s EXCEPT !.loading = TRUE,
                 !.req = [stage |-> "login",
                          fresh |-> s.token = Null /\ s.lsToken = Absent],
                 !.event = [path |-> "pending", toast |-> "none", fresh |-> FALSE]]

\* the catch and finally blocks
LoginCatch(s, errorMessage) ==
  [s EXCEPT !.loading = FALSE,
            !.req = NoLoginReq,
            !.event = [path |-> "error", toast |-> LoginToast(errorMessage),
                       fresh |-> s.req.fresh]]

\* handleLogin after loginUser resolved, up to `await getProfile()`
LoginResolved(s, accessToken) ==
  LET s1 == [s EXCEPT !.lastResponse = 200]
  IN  IF ~Truthy(accessToken) \/ accessToken = Undefined
      THEN LoginCatch(s1, ErrorMessage(Undefined, "No access token received"))
      ELSE [setToken(s1, accessToken) EXCEPT !.req.stage = "profile"]

\* handleLogin after getProfile resolved
ProfileResolved(s, data) ==
  LET s1 == [s EXCEPT !.lastResponse = 200]
  IN  IF Truthy(data)
      THEN [setUser(s1, data) EXCEPT
              !.location = "/dashboard",
              !.loading = FALSE,
              !.req = NoLoginReq,
              !.event = [path |-> "success", toast |-> "Welcome back!", fresh |-> s.req.fresh]]
      ELSE LoginCatch(s1, ErrorMessage(Undefined, "Failed to fetch profile"))

\* loginUser or getProfile rejected
RequestRejected(s, status, detail) ==
  LoginCatch(InterceptRejected(s, status), ErrorMessage(detail, AxiosMessage(status)))

LoginInit ==
  /\ loginLoading = FALSE
  /\ loginReq = NoLoginReq
  /\ loginEvent = NoLoginEvent

\* the form is submitted; the button is disabled while loading
SubmitLogin ==
  /\ ~loginLoading
  /\ \E email \in LoginEmails : \E password \in LoginPasswords :
       SetLogin(handleLogin(LoginState, email, password))
  /\ UNCHANGED <<inflight, resumeVars, valVars, apiVars, uniVars, quizVars, pageVars>>

LoginResolves ==
  /\ loginReq.stage = "login"
  /\ \E accessToken \in AccessTokens : SetLogin(LoginResolved(LoginState, accessToken))
  /\ UNCHANGED <<inflight, resumeVars, valVars, apiVars, uniVars, quizVars, pageVars>>

LoginRejects ==
  /\ loginReq.stage = "login"
  /\ \E status \in LoginFailures : \E detail \in Details :
       /\ status = NetworkError => detail = Undefined
       /\ SetLogin(RequestRejected(LoginState, status, detail))
  /\ UNCHANGED <<inflight, resumeVars, valVars, apiVars, uniVars, quizVars, pageVars>>

ProfileResolves ==
  /\ loginReq.stage = "profile"
  /\ \E data \in ProfileData : SetLogin(ProfileResolved(LoginState, data))
  /\ UNCHANGED <<inflight, resumeVars, valVars, apiVars, uniVars, quizVars, pageVars>>

ProfileRejects ==
  /\ loginReq.stage = "profile"
  /\ \E status \in LoginFailures : \E detail \in Details :
       /\ status = NetworkError => detail = Undefined
       /\ SetLogin(RequestRejected(LoginState, status, detail))
  /\ UNCHANGED <<inflight, resumeVars, valVars, apiVars, uniVars, quizVars, pageVars>>

\* the user logs out from the navigation bar
LoginPageLogout ==
  /\ SetLogin([logout(LoginState) EXCEPT !.event = NoLoginEvent])
  /\ UNCHANGED <<inflight, resumeVars, valVars, apiVars, uniVars, quizVars, pageVars>>

LoginNext ==
  \/ SubmitLogin
  \/ LoginResolves
  \/ LoginRejects
  \/ ProfileResolves
  \/ ProfileRejects
  \/ LoginPageLogout

\* ------------------------------------------------------------------------
\* Specifications
\* ------------------------------------------------------------------------
ValInit == validation = NoValidation

ValNext ==
  \/ ClearValidation
  \/ CallValidateEmail
  \/ CallValidatePassword
  \/ CallValidateConfirmPassword

AuthNext ==
  \/ CallSetToken
  \/ CallSetUser
  \/ CallLogout
  \/ Navigate
  \/ SendRequest
  \/ ResponseFulfilled
  \/ ResponseRejected

ApiNext ==
  \/ EnableMockData
  \/ CallMethod
  \/ UnderlyingResolves
  \/ UnderlyingRejects

\* every part in its state after construction, nothing in localStorage
InitFresh ==
  /\ ValInit
  /\ AuthFresh
  /\ ApiInit
  /\ UniInit
  /\ QuizInit
  /\ StoreInit
  /\ LearnInit
  /\ QueryInit
  /\ SiteInit
  /\ ProjInit
  /\ ResumeInit
  /\ LoginInit

\* as InitFresh, with whatever an earlier visit left in localStorage
InitStored ==
  /\ ValInit
  /\ AuthInit
  /\ ApiInit
  /\ UniInit
  /\ QuizInit
  /\ StoreInit
  /\ LearnInit
  /\ QueryInit
  /\ SiteInit
  /\ ProjInit
  /\ ResumeInit
  /\ LoginInit

SpecVal  == InitFresh /\ [][ValNext]_vars
SpecAuth == InitStored /\ [][AuthNext]_vars
SpecApi  == InitFresh /\ [][ApiNext]_vars
SpecUni  == InitFresh /\ [][UniNext]_vars
SpecQuiz == InitFresh /\ [][QuizNext]_vars
SpecStore == InitFresh /\ [][StoreNext]_vars
SpecLearn == InitFresh /\ [][LearnNext]_vars
SpecQuery == InitFresh /\ [][QueryNext]_vars
SpecSite == InitFresh /\ [][SiteNext]_vars
SpecXp == InitFresh /\ [][XpNext]_vars
SessionNext ==
  \/ UniNext
  \/ Remount
  \/ SiblingRequestFails

SpecSession == InitFresh /\ [][SessionNext]_vars
SpecResume == InitFresh /\ [][ResumeNext]_vars
SpecLogin == InitFresh /\ [][LoginNext]_vars

\* ------------------------------------------------------------------------
\* Properties
\* ------------------------------------------------------------------------

\* C1: whenever a response with status 401 comes back through the shared
\* client, the store's token and user are null, the keys gg_token and gg_user
\* are gone from localStorage, and the location is /login.
C1_Unauthorized401ClearsSession ==
  [][(inflight' = inflight - 1 /\ lastResponse' = 401)
       => /\ token' = Null
          /\ user' = Null
          /\ lsToken' = Absent
          /\ lsUser' = Absent
          /\ location' = "/login"]_vars

\* a 401 has just cleared a session that was there
C1_Witness ==
  /\ lastResponse = 401
  /\ token = Null /\ user = Null
  /\ lsToken = Absent /\ lsUser = Absent
  /\ location = "/login"

\* C2: when the countdown reaches zero while no answer is submitted for the
\* current question (isAnswerSubmitted is false and no response carries the
\* question's id), that very step appends one response for the question with
\* selected = -1, isCorrect = false, timedOut = true and timeTaken = the time
\* limit per question, and it is the only response with that id; no question
\* id ever has two responses.
C2_ExpiryRecordsTimedOutResponse ==
  /\ \A i \in 1..Len(responses) : \A j \in 1..Len(responses) :
       responses[i].id = responses[j].id => i = j
  /\ (quizEvent.kind = "expired" /\ quizEvent.open) =>
       /\ Len(responses) = quizEvent.lenBefore + 1
       /\ quizMeta.set
       /\ responses[Len(responses)] =
            [id |-> quizEvent.qid, selected |-> -1, isCorrect |-> FALSE,
             timeTaken |-> quizMeta.timePerQuestion, timedOut |-> TRUE]
       /\ Cardinality({i \in 1..Len(responses) : responses[i].id = quizEvent.qid}) = 1
       /\ isAnswerSubmitted

\* the countdown has just expired on the second question of a quiz
C2_Witness ==
  /\ quizEvent.kind = "expired"
  /\ quizEvent.open
  /\ currentIndex = 1
  /\ Len(responses) = 2
  /\ responses[2].timedOut
  /\ responses[2].timeTaken = 2

\* C3: when the 1200 ms callback queued by a countdown expiry on the last
\* question runs, submitQuizResult is called with one response per question.
C3_LastQuestionTimeoutSubmits ==
  (quizEvent.kind = "delayed" /\ quizEvent.last) =>
    /\ quizEvent.sent
    /\ submits # <<>>
    /\ Len(submits[Len(submits)].responses) = Len(questions)

\* C4: every change of the query clears the pending debounce timer of the
\* previous query and aborts its request, so the only timer pending and the
\* only lookup awaiting the API are those of the current run of the effect,
\* and a lookup is started only by the timer of the current, unchanged query.
C4_LookupOnlyForSettledQuery ==
  /\ \A t \in debounce : t.epoch = epoch /\ t.query = query
  /\ \A l \in lookups : l.epoch = epoch /\ l.query = query
  /\ started # NoStart => (started.epoch = epoch /\ started.query = query)

\* a change of the query has just aborted the request of the previous query
\* and replaced its timer
C4_Witness ==
  /\ done.cause = "superseded"
  /\ debounce = {[epoch |-> epoch, query |-> query]}
  /\ lookups = {}

\* C5: at most one lookup request is in flight and not aborted; the ref holds
\* the controller created last, and every controller created before it has
\* been aborted.
C5_SingleLiveRequest ==
  /\ Cardinality({l \in lookups : ~aborted[l.ctrl]}) <= 1
  /\ abortRef = Len(aborted)
  /\ \A l \in lookups : ~aborted[l.ctrl] => l.ctrl = abortRef
  /\ \A c \in 1..Len(aborted) : c # abortRef => aborted[c]

\* a second request is in flight after the first one was aborted
C5_Witness ==
  /\ Len(aborted) >= 2
  /\ aborted[1]
  /\ \E l \in lookups : l.ctrl = abortRef /\ ~aborted[l.ctrl]

\* the fallback list the claim describes: the entries whose name contains the
\* query (letter case ignored), or the first 10 entries when there is none
C6_Matches(q) ==
  SelectSeq(FALLBACK_UNIVERSITIES, LAMBDA u : Includes(ToLowerCase(u.name), ToLowerCase(q)))

C6_Expected(q) ==
  IF C6_Matches(q) = <<>> THEN SubSeq(FALLBACK_UNIVERSITIES, 1, 10) ELSE C6_Matches(q)

\* C6: no lookup ever sets an error; a completed lookup (its query has at
\* least 2 characters) leaves a non-empty list and loading = false, and after
\* a failed, timed-out, non-OK or empty API answer the list is the fallback
\* list for the query.
C6_CompletedLookupNeverEmpty ==
  /\ error = Null
  /\ done # NoDone =>
       /\ Len(done.query) >= 2
       /\ universities # <<>>
       /\ loading = FALSE
       /\ done.cause \in {"failed", "timeout", "not_ok", "no_entries"}
            => universities = C6_Expected(done.query)

\* a failed request for a query that matches no fallback entry
C6_Witness ==
  /\ done.cause = "failed"
  /\ done.query = <<"z","z","q">>
  /\ universities = SubSeq(FALLBACK_UNIVERSITIES, 1, 10)
  /\ loading = FALSE

\* C7 as stated: validateConfirmPassword(p, p) is valid for every string p.
C7_ConfirmSameAlwaysValid ==
  (validation.fn = "validateConfirmPassword" /\ validation.args[1] = validation.args[2])
    => validation.result.valid

\* C7 amended: validateConfirmPassword(p, p) is valid for every non-empty
\* string p (the empty string is rejected with 'Please confirm your password').
C7_ConfirmSameNonEmptyValid ==
  (validation.fn = "validateConfirmPassword" /\ validation.args[1] = validation.args[2])
    => IF validation.args[2] = <<>>
       THEN validation.result = [valid |-> FALSE, message |-> "Please confirm your password"]
       ELSE validation.result = [valid |-> TRUE, message |-> Undefined]

C7_Witness ==
  /\ validation.fn = "validateConfirmPassword"
  /\ validation.args = << <<"a","1">>, <<"a","1">> >>
  /\ validation.result.valid

\* C8: validatePassword('short') is invalid with the length message, and so is
\* every non-empty password shorter than 8 characters.
C8_ShortPasswordRejected ==
  (validation.fn = "validatePassword"
     /\ validation.args[1] # <<>>
     /\ Len(validation.args[1]) < 8)
    => validation.result =
         [valid |-> FALSE, message |-> "Password must be at least 8 characters"]

C8_Witness ==
  /\ validation.fn = "validatePassword"
  /\ validation.args = << <<"s","h","o","r","t">> >>
  /\ validation.result = [valid |-> FALSE, message |-> "Password must be at least 8 characters"]

\* C9: validateEmail('a@b.com') is valid.
C9_SampleEmailValid ==
  (validation.fn = "validateEmail" /\ validation.args = << <<"a","@","b",".","c","o","m">> >>)
    => validation.result = [valid |-> TRUE, message |-> Undefined]

C9_Witness ==
  /\ validation.fn = "validateEmail"
  /\ validation.args = << <<"a","@","b",".","c","o","m">> >>
  /\ validation.result.valid

\* C10: a wrapper call whose underlying request failed is rejected with that
\* very error exactly when the flag was off when the failure was caught; with
\* the flag on it resolves with the method's mock value.  The flag is off
\* until enableMockData is called.
C10_MockFlagDecidesRejection ==
  /\ (~flagTouched => ~useMockData)
  /\ \A i \in 1..Len(calls) :
       (calls[i].status # "pending" /\ calls[i].underlying \in Errors)
         => /\ (calls[i].status = "rejected" /\ calls[i].value = ErrorValue(calls[i].underlying))
                 <=> ~calls[i].flagAtSettle
            /\ calls[i].flagAtSettle
                 => (calls[i].status = "resolved" /\ calls[i].value = MockValue(calls[i].method))

\* a failure caught with the flag off although the call was made with it on
C10_Witness ==
  /\ Len(calls) >= 1
  /\ calls[1].flagAtCall /\ ~calls[1].flagAtSettle
  /\ calls[1].underlying \in Errors
  /\ calls[1].status = "rejected"
  /\ calls[1].value = ErrorValue(calls[1].underlying)

\* C11: after any sequence of setToken, setUser and logout calls the in-memory
\* token equals the value stored under gg_token (null exactly when the key is
\* absent) and the in-memory user equals the JSON value stored under gg_user
\* (null exactly when the key is absent).
C11_StoreMatchesStorage ==
  /\ (token = Null) <=> (lsToken = Absent)
  /\ lsToken # Absent => token = lsToken
  /\ (user = Null) <=> (lsUser = Absent)
  /\ lsUser # Absent => user = JSONparse(lsUser)

\* C12: the dark-mode flag and the gamification counters survive a reload of
\* the page: right after a reload darkMode, xp and badges are what they were
\* right before it.
C12_StoresSurviveReload ==
  beforeReload.set =>
    /\ darkMode = beforeReload.darkMode
    /\ xp = beforeReload.xp
    /\ badges = beforeReload.badges

\* C13 (as claimed): when the progress request of a skill toggle fails, the
\* client shows the error toast and the skill keeps the optimistically applied
\* value.
C13_FailedToggleKeepsOptimisticValue ==
  learnEvent.kind = "progressFailed" =>
    /\ learnEvent.toast = "Unable to update progress right now."
    /\ completed[learnEvent.key] = learnEvent.next

\* C13 (amended): when the progress request of a skill toggle fails, the client
\* shows the error toast and sets the skill's flag to the negation of the value
\* that toggle had applied.
C13_FailedToggleRollsBack ==
  learnEvent.kind = "progressFailed" =>
    /\ learnEvent.toast = "Unable to update progress right now."
    /\ completed[learnEvent.key] = Not(learnEvent.next)

\* a toggle to completed has failed and the flag is back to not completed
C13_Witness ==
  /\ learnEvent.kind = "progressFailed"
  /\ learnEvent.next = "true"
  /\ completed[learnEvent.key] = "false"

\* C14: a failed request is never re-issued automatically: for each activation
\* of a data query the client sends the request once, and after a failure no
\* further attempt is made until the user acts again.
C14_NoAutomaticRetry ==
  \A n \in QueryNames : queries[n].sent <= 1

\* C15: every failed request is caught at the call site that issued it and is
\* either surfaced as an error toast or replaced by hard-coded fallback data;
\* none escapes as an unhandled rejection or is swallowed without either.
C15_FailureToastedOrReplaced ==
  siteEvent.kind = "failed" => siteEvent.outcome \in {"toast", "fallback"}

\* every question of the loaded quiz has exactly one recorded response and
\* there are as many responses as questions
C16_AllAnswered ==
  /\ Len(responses) = Len(questions)
  /\ \A i \in 1..Len(questions) :
       Cardinality({j \in 1..Len(responses) : responses[j].id = questions[i].id}) = 1

C17_NeverSkipsQuestion ==
  Len(questions) > 0 =>
    /\ currentIndex < Len(questions)
    /\ \A i \in 1..currentIndex :
         i <= Len(questions) => HasResponse(responses, questions[i].id)

\* the ids of the loaded questions are pairwise distinct
C18_DistinctIds ==
  \A i \in 1..Len(questions) : \A j \in 1..Len(questions) :
    questions[i].id = questions[j].id => i = j

\* C18: with distinct question ids, at every point of a quiz attempt there is
\* at most one response per question id, correctCount is the number of
\* responses with isCorrect = true, every recorded timeTaken lies between 1
\* and the time limit per question, and every submitted score lies in 0..100.
C18_ResponsesConsistent ==
  C18_DistinctIds =>
    /\ \A i \in 1..Len(responses) : \A j \in 1..Len(responses) :
         responses[i].id = responses[j].id => i = j
    /\ correctCount = Cardinality({i \in 1..Len(responses) : responses[i].isCorrect})
    /\ \A i \in 1..Len(responses) :
         /\ responses[i].timeTaken >= 1
         /\ responses[i].timeTaken <= TotalWindow(quizMeta)
    /\ \A i \in 1..Len(submits) : submits[i].score \in 0..100

\* C19: once every quiz request has been answered and loading has finished,
\* the displayed questions are those returned for the most recently requested
\* settings; a late response to an earlier request never overwrites them.
C19_LatestLoadWins ==
  (loads = <<>> /\ ~isLoading /\ quizError = Null /\ Len(questions) > 0) =>
    loadedFor = settings

\* C20: xp and badges change only in the step in which a request succeeded:
\* a successful quiz-result submission adds the awarded XP once, a successful
\* project start / step / submit adds 40 / 20 / 120 XP once, and a failed quiz
\* submission or a failed mutation leaves xp and badges unchanged.
C20_XpOnlyOnSuccess ==
  [][ LET quizSettled == Len(submits') < Len(submits)
          mutationSettled == pendingMutations' # pendingMutations /\
                             pendingMutations' \subseteq pendingMutations
          succeeded == mutationSettled /\ projEvent'.kind = "mutationSucceeded"
      IN  /\ (xp' # xp \/ badges' # badges) =>
               \/ quizSettled /\ quizEvent'.kind = "submitted"
               \/ succeeded
          /\ (quizSettled /\ quizEvent'.kind = "submitted") =>
               xp' = xp + summary'.awarded_xp
          /\ (quizSettled /\ quizEvent'.kind = "submitFailed") =>
               xp' = xp /\ badges' = badges
          /\ (succeeded /\ projEvent'.mutation = "start") => xp' = xp + 40
          /\ (succeeded /\ projEvent'.mutation = "step") => xp' = xp + 20
          /\ (succeeded /\ projEvent'.mutation = "submit") => xp' = xp + 120
          /\ (mutationSettled /\ projEvent'.kind = "mutationFailed") =>
               xp' = xp /\ badges' = badges
    ]_vars

\* a project submission has succeeded after a quiz awarded 10 XP
C20_Witness ==
  /\ projEvent.kind = "mutationSucceeded"
  /\ projEvent.mutation = "submit"
  /\ xp = 130
  /\ badges = <<"b1", "Portfolio Finisher">>

\* C21: every run of the 1000 ms callback that a successful resume upload
\* sets issues the analyze request, the one after the first upload of the
\* page included.
C21_UploadTriggersAnalysis ==
  (resumeEvent.kind = "analysis" /\ resumeEvent.by = "timer") => resumeEvent.sent

\* C22: a run of runFullAnalysis sends the analyze request only when the last
\* settled upload of the page succeeded; with no upload yet or after a failed
\* one it sends nothing and shows 'Upload a resume before running the AI
\* analysis.'
C22_AnalyzeOnlyAfterSuccessfulUpload ==
  /\ resumeEvent.sent => lastUpload = "succeeded"
  /\ (resumeEvent.kind = "analysis" /\ lastUpload # "succeeded") =>
       /\ ~resumeEvent.sent
       /\ resumeEvent.toast = "Upload a resume before running the AI analysis."

\* no debounce timer, 3 s timer or request of the autocomplete is pending
UniSettled == debounce = {} /\ apiTimers = {} /\ lookups = {}

\* C24: once every timer and request of the autocomplete has settled, the
\* list is empty when the current query has fewer than 2 characters, and the
\* last write to the list (API slice, fallback list or clearing) was made for
\* the current query, never for a superseded one.
C24_SettledListIsForCurrentQuery ==
  UniSettled =>
    /\ Len(query) < 2 => universities = <<>>
    /\ listFor = query

\* C23: a lookup request that fails with an error other than an AbortError
\* disables the API; the flag is never cleared again; and while it is set no
\* lookup, for whatever query and of whatever instance of the hook, issues an
\* API request: every lookup started then ends at once with the fallback list
\* for its query.
C23_ApiDisabledForTheSession ==
  /\ [](done.cause = "failed" => apiDisabled)
  /\ [][apiDisabled =>
          /\ apiDisabled'
          /\ ~started'.api
          /\ {l.ctrl : l \in lookups'} \subseteq {l.ctrl : l \in lookups}
          /\ Len(aborted') = Len(aborted)
          /\ started' # NoStart =>
               /\ done'.via = "fallback"
               /\ done'.query = started'.query
               /\ universities' = FallbackFor(started'.query)]_vars

\* with the API disabled, the timer of a query of 3 characters has just run
\* and set the fallback list without a request
C23_Witness ==
  /\ apiDisabled
  /\ started # NoStart /\ ~started.api
  /\ Len(started.query) >= 3
  /\ done.via = "fallback" /\ done.cause = "skipped"
  /\ lookups = {}

\* C25: when handleLogin, started in an unauthenticated session, ends in its
\* catch block (the login request failed, no access token came back, or the
\* profile request failed or brought no data), the auth store holds no token
\* and localStorage has no gg_token.
C25_FailedLoginLeavesNoToken ==
  (loginEvent.path = "error" /\ loginEvent.fresh) =>
     /\ token = Null
     /\ lsToken = Absent

====
